---- MODULE Spec2Model ----
(***************************************************************************)
(* Model of the Syncer applications: the desktop variant                   *)
(* (src/Syncer-Main.py, local git driver) and the mobile variant           *)
(* (src/main.py, GitHub REST client).  Text is modelled as sequences of    *)
(* one-character strings so that strip(), substring tests, suffix tests    *)
(* and lexicographic comparison are computed as Python computes them.      *)
(***************************************************************************)
EXTENDS Integers, Sequences, FiniteSets, TLC

(* ---------------------------------------------------------------- text *)

Whitespace == {" ", "\t", "\n"}

RECURSIVE lstrip(_)
lstrip(s) == IF s # <<>> /\ Head(s) \in Whitespace THEN lstrip(Tail(s)) ELSE s

RECURSIVE rstrip(_)
rstrip(s) ==
  IF s # <<>> /\ s[Len(s)] \in Whitespace THEN rstrip(SubSeq(s, 1, Len(s) - 1)) ELSE s

\* str.strip()
strip(s) == rstrip(lstrip(s))

\* `sub in s`
InStr(sub, s) ==
  \E i \in 0..(Len(s) - Len(sub)) : SubSeq(s, i + 1, i + Len(sub)) = sub

\* s.startswith(p), s.endswith(p)
startswith(s, p) == Len(p) <= Len(s) /\ SubSeq(s, 1, Len(p)) = p
endswith(s, p) == Len(p) <= Len(s) /\ SubSeq(s, Len(s) - Len(p) + 1, Len(s)) = p

\* s.split(sep) for a one-character separator
RECURSIVE split(_, _)
split(s, sep) ==
  IF \A i \in 1..Len(s) : s[i] # sep THEN <<s>>
  ELSE LET i == CHOOSE k \in 1..Len(s) : s[k] = sep /\ \A j \in 1..(k - 1) : s[j] # sep
       IN  <<SubSeq(s, 1, i - 1)>> \o split(SubSeq(s, i + 1, Len(s)), sep)

\* sep.join(parts)
RECURSIVE join(_, _)
join(parts, sep) ==
  IF parts = <<>> THEN <<>>
  ELSE IF Len(parts) = 1 THEN parts[1]
  ELSE parts[1] \o <<sep>> \o join(Tail(parts), sep)

\* the component loop of os.path.normpath (posixpath)
RECURSIVE normcomps(_, _, _)
normcomps(comps, new_comps, initial_slashes) ==
  IF comps = <<>> THEN new_comps
  ELSE LET comp == Head(comps)
           n == Len(new_comps)
       IN  IF comp \in {<<>>, <<".">>}
             THEN normcomps(Tail(comps), new_comps, initial_slashes)
           ELSE IF \/ comp # <<".", ".">>
                   \/ (initial_slashes = 0 /\ n = 0)
                   \/ (n > 0 /\ new_comps[n] = <<".", ".">>)
             THEN normcomps(Tail(comps), Append(new_comps, comp), initial_slashes)
           ELSE IF n > 0
             THEN normcomps(Tail(comps), SubSeq(new_comps, 1, n - 1), initial_slashes)
           ELSE normcomps(Tail(comps), new_comps, initial_slashes)

\* os.path.normpath
normpath(path) ==
  IF path = <<>> THEN <<".">>
  ELSE LET initial_slashes ==
             IF ~startswith(path, <<"/">>) THEN 0
             ELSE IF startswith(path, <<"/", "/">>) /\ ~startswith(path, <<"/", "/", "/">>)
               THEN 2 ELSE 1
           body == join(normcomps(split(path, "/"), <<>>, initial_slashes), "/")
           full == [i \in 1..initial_slashes |-> "/"] \o body
       IN  IF full = <<>> THEN <<".">> ELSE full

(* -------------------------------------------------------------- inputs *)

\* what the form fields may hold when a button is pressed
Usernames == {<<>>, <<" ">>, <<"u">>}
Emails == {<<>>, <<"e">>, <<"e", "@", "x">>}
RepoLinks == {<<>>, <<"h", "t", "t", "p", "s", ":", "/", "/", "g", "i", "t", "h", "u", "b", ".", "c", "o", "m", "/", "o", "/", "r", ".", "g", "i", "t">>, <<"h", "t", "t", "p", "s", ":", "/", "/", "g", "i", "t", "h", "u", "b", ".", "c", "o", "m", "/", "o">>}
DesktopRepoLinks == {<<>>, <<"h", "t", "t", "p", "s", ":", "/", "/", "g", "i", "t", "h", "u", "b", ".", "c", "o", "m", "/", "o", "/", "r", ".", "g", "i", "t">>}
CommitMessages == {<<>>, <<"m", "s", "g">>}
VaultLinks == {<<>>, <<"a", "/">>, <<"c">>}
OneDriveLinks == {<<>>, <<"a">>, <<".", "/", "b">>, <<"c">>}
MobileVaultLinks == {<<>>, <<"a">>, <<"b", "/">>, <<"c">>, <<"d">>}
BranchNames == {<<>>, <<"d", "e", "v">>}

\* the directories that exist on disk, by normalised path, with their files in
\* the order os.walk yields them; "c" names no directory
File(path, content) == [path |-> path, content |-> content]
Disk ==
  (<<"a">> :> <<File(<<"n", ".", "m", "d">>, "c1"), File(<<"s", "/", "m", ".", "m", "d">>, "c2"), File(<<"k", ".", "m", "d">>, "c3")>>) @@
  (<<"b">> :> <<File(<<"E", "r", "r", "o", "r", ".", "m", "d">>, "c4")>>) @@
  (<<"d">> :> <<>>)

(* --------------------------------------------------------------- state *)

VARIABLES
  variant,      \* "desktop": src/Syncer-Main.py; "mobile": src/main.py
  ids,          \* the text of the form fields
  fs,           \* the disk: directory path -> sequence of files (walk order)
  cache,        \* the settings cache file: <<>> when absent, else <<the record saved>>
  pc,           \* position of the running handler
  output_text,  \* the output widget: sequence of lines
  output,       \* run_commands' `output` list
  cur,          \* desktop: which vault run_git_commands is working on (1, 2)
  g_output,     \* run_git_commands' local `output` list
  cmds,         \* every git command run so far
  entry,        \* mobile: the handler that is running
  requests,     \* mobile: every HTTP request sent so far, with its status
  repo_info,    \* mobile: (owner, repo, default_branch) from get_repo_info
  files,        \* mobile: run_commands' `files` list
  uploaded_files, \* upload_files_to_github's `uploaded_files` list
  base_sha,     \* upload_files_to_github's `base_sha`
  idx,          \* how many entries of the current loop are done
  latest_run,   \* trigger_github_workflow's `latest_run` once completed
  pulls,        \* auto_merge_pull_requests' list of open pull requests
  remote,       \* the repository's backup branches: which exist, and the files at
                \* the root of `backup`
  clock,        \* the wall clock, in seconds
  temp_backup,  \* the file TEMP_BACKUP: <<>> when absent, else <<the archive>>
  latest_backup, \* restore_remote_vault's `latest_backup`
  runs,         \* how many times a backup or restore button has been pressed
  backups,      \* the names under which a backup has been uploaded, oldest first
  fs_at_press,  \* the disk as it was when the running handler's button was pressed
  wc,           \* desktop: the remotes of the git working copy, name -> URL
  calls         \* desktop: the outcome of every remote setup so far

deskVars == <<cur, g_output, cmds>>
gitVars == <<wc, calls>>
vaultVars == <<remote, clock, temp_backup, latest_backup, runs, backups, fs_at_press,
               gitVars>>
mobVars == <<entry, requests, repo_info, files, uploaded_files, base_sha, idx,
             latest_run, pulls>>

Line(kind, arg) == [kind |-> kind, arg |-> arg]

\* os.path.isdir
isdir(disk, path) == path # <<>> /\ normpath(path) \in DOMAIN disk

\* all([...]) over strings: every one is non-empty
all(fields) == \A i \in 1..Len(fields) : fields[i] # <<>>

(* ------------------------------------------- desktop: Syncer-Main.py *)

\* the form fields as run_commands reads them: .get().strip()
Stripped == [k \in DOMAIN ids |-> strip(ids[k])]

\* run_commands' validation (desktop): the error shown, or "ok"
ValidateDesktop(f, disk) ==
  IF ~all(<<f.username, f.email, f.repo_link, f.local_vault_link>>)
    THEN "Error: Username, Email, Repository Link, and Local Vault Link are required."
  ELSE IF f.onedrive_vault_link # <<>>
          /\ normpath(f.local_vault_link) = normpath(f.onedrive_vault_link)
    THEN "Error: Local Vault Link and OneDrive Vault Link must be different."
  ELSE IF ~isdir(disk, f.local_vault_link)
    THEN "Error: Local Vault Link directory does not exist."
  ELSE IF f.onedrive_vault_link # <<>> /\ ~isdir(disk, f.onedrive_vault_link)
    THEN "Error: OneDrive Vault Link directory does not exist."
  ELSE "ok"

\* the record save_cached_data writes (desktop)
DesktopCacheRecord(f) ==
  [username |-> f.username, email |-> f.email, repo_link |-> f.repo_link,
   commit_message |-> f.commit_message, local_vault_link |-> f.local_vault_link,
   onedrive_vault_link |-> f.onedrive_vault_link]

\* save_cached_data: the cache file once json.dump has rewritten it (the disk
\* is taken to be writable)
save_cached_data(data) == <<data>>

\* the cache file had the settings been saved ahead of validation
MutRejectedCache(f) == save_cached_data(DesktopCacheRecord(f))

\* the cache file when validation rejects: every check returns before
\* save_cached_data is reached, so it is what it was
RejectedCache(f) == cache

\* "Run Git Commands" pressed: validation, cache save, start of the local vault
run_commands_desktop ==
  /\ variant = "desktop"
  /\ pc = "idle"
  /\ LET f == Stripped
         v == ValidateDesktop(f, fs)
     IN  IF v # "ok"
           THEN /\ output_text' = <<Line(v, <<>>)>>
                /\ pc' = "done"
                /\ cache' = RejectedCache(f)
                /\ UNCHANGED <<output, deskVars>>
           ELSE /\ cache' = save_cached_data(DesktopCacheRecord(f))
                /\ output_text' = <<Line("Processing...", <<>>)>>
                /\ output' = <<Line("Processing Local Vault...", <<>>)>>
                /\ cur' = 1
                /\ g_output' = <<>>
                /\ pc' = "g_enter"
                /\ UNCHANGED cmds
  /\ UNCHANGED <<vaultVars, variant, ids, fs, mobVars>>

\* run_git_commands' parameters
directory == IF cur = 1 THEN Stripped.local_vault_link ELSE Stripped.onedrive_vault_link
commit_msg ==
  IF strip(Stripped.commit_message) # <<>> THEN strip(Stripped.commit_message)
  ELSE <<"A", "u", "t", "o", " ", "c", "o", "m", "m", "i", "t">>

\* what a git subprocess may do: exit 0, or exit non-zero with a diagnostic on
\* stderr (CalledProcessError); when git is not installed the first subprocess
\* does not start at all (FileNotFoundError)
Stderrs == {<<"f", "a", "t", "a", "l">>}
Ok == [exc |-> "", stderr |-> <<>>]
NoFile == [exc |-> "FileNotFoundError", stderr |-> <<>>]
CmdResults == {Ok} \cup {[exc |-> "CalledProcessError", stderr |-> s] : s \in Stderrs}

\* a command as logged: where it ran, what it was, and the diagnostic of the
\* exception it raised into run_git_commands (none when a query helper
\* swallowed it), and for the two query helpers the value they returned
Cmd(argv, arg, res, ret) ==
  [dir |-> directory, argv |-> argv, arg |-> arg, exc |-> res.exc, stderr |-> res.stderr,
   ret |-> ret]

\* run_git_commands' outer handlers: the line appended, then `return output`
OuterExcept(res) ==
  /\ g_output' =
       Append(g_output,
              IF res = NoFile THEN Line("Directory not found", directory)
              ELSE Line("Error executing Git command in ", res.stderr))
  /\ pc' = "g_return"

\* run_git_commands, lines 58-65
g_enter ==
  /\ pc = "g_enter"
  /\ IF ~isdir(fs, directory)
       THEN /\ g_output' = <<Line("Error: Directory does not exist", directory)>>
            /\ pc' = "g_return"
       ELSE /\ g_output' = <<Line("Changed to directory: ", directory)>>
            /\ pc' = "g_config_name"
  /\ UNCHANGED <<vaultVars, variant, ids, fs, cache, output_text, output, cur, cmds, mobVars>>

\* one subprocess.run(..., check=True) of run_git_commands' body: on success the
\* lines `oklines` and on to `okpc`; a CalledProcessError is handled by the
\* enclosing inner try (line `failkind`, on to `failpc`) or, when there is none
\* (failkind = ""), by the outer handler
GitStepIn(results, from, argv, arg, okpc, oklines, failkind, failpc) ==
  /\ pc = from
  /\ \E res \in results :
       /\ cmds' = Append(cmds, Cmd(argv, arg, res, FALSE))
       /\ IF res = Ok THEN g_output' = g_output \o oklines /\ pc' = okpc
          ELSE IF res = NoFile \/ failkind = "" THEN OuterExcept(res)
          ELSE g_output' = Append(g_output, Line(failkind, res.stderr)) /\ pc' = failpc
  /\ UNCHANGED <<vaultVars, variant, ids, fs, cache, output_text, output, cur, mobVars>>

GitStep(from, argv, arg, okpc, oklines, failkind, failpc) ==
  GitStepIn(CmdResults, from, argv, arg, okpc, oklines, failkind, failpc)

g_config_name ==
  GitStepIn(CmdResults \cup {NoFile}, "g_config_name", "config user.name", Stripped.username,
          "g_config_email", <<>>, "", "")

g_config_email ==
  GitStep("g_config_email", "config user.email", Stripped.email,
          "check_remote_exists",
          <<Line("Successfully configured Git user: ", Stripped.username)>>, "", "")

\* what `git remote -v` may print
RemoteStdouts == {<<>>, <<"o", "r", "i", "g", "i", "n", " ", "u", " ", "(", "f", "e", "t", "c", "h", ")">>}

\* check_remote_exists: "origin" in stdout; a CalledProcessError gives False
check_remote_exists ==
  /\ pc = "check_remote_exists"
  /\ \E res \in CmdResults, stdout \in RemoteStdouts :
       LET exists == res = Ok /\ InStr(<<"o", "r", "i", "g", "i", "n">>, stdout)
       IN  /\ cmds' = Append(cmds, Cmd("remote -v", <<>>, Ok, exists))
           /\ pc' = IF exists THEN "g_remote_set_url" ELSE "g_remote_add"
           /\ UNCHANGED g_output
  /\ UNCHANGED <<vaultVars, variant, ids, fs, cache, output_text, output, cur, mobVars>>

g_remote_set_url ==
  GitStep("g_remote_set_url", "remote set-url origin", Stripped.repo_link, "g_fetch",
          <<Line("Successfully updated remote origin to ", Stripped.repo_link)>>, "", "")

g_remote_add ==
  GitStep("g_remote_add", "remote add origin", Stripped.repo_link, "g_fetch",
          <<Line("Successfully added remote origin to ", Stripped.repo_link)>>, "", "")

\* g_fetch going on to the next step when the fetch fails
MutGFetch ==
  GitStep("g_fetch", "fetch origin", <<>>, "g_status1",
          <<Line("Successfully fetched Git repository", <<>>)>>,
          "Failed to fetch Git repository: ", "g_status1")

g_fetch ==
  GitStep("g_fetch", "fetch origin", <<>>, "g_status1",
          <<Line("Successfully fetched Git repository", <<>>)>>,
          "Failed to fetch Git repository: ", "g_return")

\* what `git status --porcelain` may print
StatusStdouts == {<<>>, <<" ", "M", " ", "f">>}

\* has_uncommitted_changes whose caller stages and commits whatever it returns
MutHasUncommittedChanges(from, yespc, nopc, noline) ==
  /\ pc = from
  /\ \E res \in CmdResults, stdout \in StatusStdouts :
       LET pending == res = Ok /\ strip(stdout) # <<>>
       IN  /\ cmds' = Append(cmds, Cmd("status --porcelain", <<>>, Ok, pending))
           /\ pc' = yespc
           /\ UNCHANGED g_output
  /\ UNCHANGED <<vaultVars, variant, ids, fs, cache, output_text, output, cur, mobVars>>

\* has_uncommitted_changes: bool(stdout.strip()); a CalledProcessError gives False
has_uncommitted_changes(from, yespc, nopc, noline) ==
  /\ pc = from
  /\ \E res \in CmdResults, stdout \in StatusStdouts :
       LET pending == res = Ok /\ strip(stdout) # <<>>
       IN  /\ cmds' = Append(cmds, Cmd("status --porcelain", <<>>, Ok, pending))
           /\ IF pending
                THEN pc' = yespc /\ UNCHANGED g_output
                ELSE pc' = nopc /\ g_output' = Append(g_output, Line(noline, <<>>))
  /\ UNCHANGED <<vaultVars, variant, ids, fs, cache, output_text, output, cur, mobVars>>

g_status1 ==
  has_uncommitted_changes("g_status1", "g_add1", "g_merge",
                          "No local changes to commit before merge")

g_add1 == GitStep("g_add1", "add .", <<>>, "g_commit1", <<>>, "", "")

g_commit1 ==
  GitStep("g_commit1", "commit -m", commit_msg, "g_merge",
          <<Line("Successfully committed local changes before merge with message ",
                 commit_msg)>>,
          "Failed to commit pre-merge changes: ", "g_return")

g_merge ==
  /\ pc = "g_merge"
  /\ \E res \in CmdResults :
       /\ cmds' = Append(cmds, Cmd("merge origin/master --no-edit", <<>>, res, FALSE))
       /\ IF res = Ok
            THEN /\ g_output' = Append(g_output, Line("Successfully merged with origin/master", <<>>))
                 /\ pc' = "g_status2"
          ELSE /\ g_output' = Append(g_output,
                      Line("Standard merge failed, attempting with --allow-unrelated-histories...", <<>>))
               /\ pc' = "g_merge_unrelated"
  /\ UNCHANGED <<vaultVars, variant, ids, fs, cache, output_text, output, cur, mobVars>>

\* g_merge_unrelated going on to the next step when the merge fails
MutGMergeUnrelated ==
  GitStep("g_merge_unrelated", "merge origin/master --no-edit --allow-unrelated-histories",
          <<>>, "g_status2",
          <<Line("Successfully merged with --allow-unrelated-histories", <<>>)>>,
          "Failed to merge with --allow-unrelated-histories: ", "g_status2")

g_merge_unrelated ==
  GitStep("g_merge_unrelated", "merge origin/master --no-edit --allow-unrelated-histories",
          <<>>, "g_status2",
          <<Line("Successfully merged with --allow-unrelated-histories", <<>>)>>,
          "Failed to merge with --allow-unrelated-histories: ", "g_return")

g_status2 ==
  has_uncommitted_changes("g_status2", "g_add2", "g_push",
                          "No changes to commit after merge")

g_add2 == GitStep("g_add2", "add .", <<>>, "g_commit2", <<>>, "", "")

g_commit2 ==
  GitStep("g_commit2", "commit -m", commit_msg, "g_push",
          <<Line("Successfully committed changes after merge with message ", commit_msg)>>,
          "Failed to commit after merge: ", "g_return")

\* g_push that reports the directory done whether or not the push went through
MutGPush ==
  /\ pc = "g_push"
  /\ \E res \in CmdResults :
       /\ cmds' = Append(cmds, Cmd("push origin master", <<>>, res, FALSE))
       /\ g_output' = g_output \o
            <<IF res = Ok THEN Line("Successfully pushed to origin/master", <<>>)
              ELSE Line("Failed to push to origin/master: ", res.stderr),
              Line("Git operations completed successfully in ", directory)>>
       /\ pc' = "g_return"
  /\ UNCHANGED <<vaultVars, variant, ids, fs, cache, output_text, output, cur, mobVars>>

g_push ==
  GitStep("g_push", "push origin master", <<>>, "g_return",
          <<Line("Successfully pushed to origin/master", <<>>),
            Line("Git operations completed successfully in ", directory)>>,
          "Failed to push to origin/master: ", "g_return")

\* run_commands that gives up the OneDrive vault once the local vault's sync
\* has not completed
MutRunCommandsExtend ==
  /\ pc = "g_return"
  /\ IF /\ cur = 1
        /\ Stripped.onedrive_vault_link # <<>>
        /\ g_output[Len(g_output)].kind = "Git operations completed successfully in "
       THEN /\ output' = output \o g_output
                           \o <<Line("\nProcessing OneDrive Vault...", <<>>)>>
            /\ cur' = 2
            /\ g_output' = <<>>
            /\ pc' = "g_enter"
            /\ UNCHANGED output_text
       ELSE /\ output' = output \o g_output
                           \o <<Line("\nAll operations completed.", <<>>)>>
            /\ output_text' = output'
            /\ pc' = "done"
            /\ UNCHANGED <<cur, g_output>>
  /\ UNCHANGED <<vaultVars, variant, ids, fs, cache, cmds, mobVars>>

\* run_commands, lines 283-298: the returned log is appended; the OneDrive vault
\* is processed next when one is configured; the log is rendered
run_commands_extend ==
  /\ pc = "g_return"
  /\ IF cur = 1 /\ Stripped.onedrive_vault_link # <<>>
       THEN /\ output' = output \o g_output
                           \o <<Line("\nProcessing OneDrive Vault...", <<>>)>>
            /\ cur' = 2
            /\ g_output' = <<>>
            /\ pc' = "g_enter"
            /\ UNCHANGED output_text
       ELSE /\ output' = output \o g_output
                           \o <<Line("\nAll operations completed.", <<>>)>>
            /\ output_text' = output'
            /\ pc' = "done"
            /\ UNCHANGED <<cur, g_output>>
  /\ UNCHANGED <<vaultVars, variant, ids, fs, cache, cmds, mobVars>>

NextDesktop ==
  \/ run_commands_desktop
  \/ g_enter
  \/ g_config_name
  \/ g_config_email
  \/ check_remote_exists
  \/ g_remote_set_url
  \/ g_remote_add
  \/ g_fetch
  \/ g_status1
  \/ g_add1
  \/ g_commit1
  \/ g_merge
  \/ g_merge_unrelated
  \/ g_status2
  \/ g_add2
  \/ g_commit2
  \/ g_push
  \/ run_commands_extend

(* ------------------------------------------------------ mobile: main.py *)

\* run_commands' validation (mobile): the error shown, or "ok"
\* ValidateMobile without its email test
MutValidateMobile(f, disk) ==
  IF ~all(<<f.username, f.email, f.repo_link, f.local_vault_link>>)
    THEN "Error: Fill all required fields."
  ELSE IF ~isdir(disk, f.local_vault_link)
    THEN "Error: Folder not found."
  ELSE "ok"

ValidateMobile(f, disk) ==
  IF ~all(<<f.username, f.email, f.repo_link, f.local_vault_link>>)
    THEN "Error: Fill all required fields."
  ELSE IF ~InStr(<<"@">>, f.email)
    THEN "Error: Valid email required."
  ELSE IF ~isdir(disk, f.local_vault_link)
    THEN "Error: Folder not found."
  ELSE "ok"

\* run_commands: branch_name = ....strip() or "main"
branch_name == IF Stripped.branch_name # <<>> THEN Stripped.branch_name ELSE <<"m", "a", "i", "n">>

\* the token, as every handler reads it from the first field
token == Stripped.username

\* s.rstrip('/')
RECURSIVE rstrip_slash(_)
rstrip_slash(s) ==
  IF s # <<>> /\ s[Len(s)] = "/" THEN rstrip_slash(SubSeq(s, 1, Len(s) - 1)) ELSE s

\* validate_repo_url that leaves a trailing ".git" in place
MutValidateRepoUrl(repo_link) ==
  LET s2 == rstrip_slash(strip(repo_link))
      prefix == <<"h", "t", "t", "p", "s", ":", "/", "/", "g", "i", "t", "h", "u", "b", ".", "c", "o", "m", "/">>
      parts == split(SubSeq(s2, Len(prefix) + 1, Len(s2)), "/")
  IN  [ok |-> /\ startswith(s2, prefix)
              /\ Len(parts) = 2
              /\ parts[1] # <<>>
              /\ parts[2] # <<>>,
       url |-> s2]

\* validate_repo_url: the normalised link, and whether the pattern
\* ^https?://github\.com/[^/]+/[^/]+$ matches it (else ValueError)
validate_repo_url(repo_link) ==
  LET s1 == rstrip_slash(strip(repo_link))
      s2 == IF endswith(s1, <<".", "g", "i", "t">>) THEN SubSeq(s1, 1, Len(s1) - 4) ELSE s1
      https == <<"h", "t", "t", "p", "s", ":", "/", "/", "g", "i", "t", "h", "u", "b", ".", "c", "o", "m", "/">>
      http == <<"h", "t", "t", "p", ":", "/", "/", "g", "i", "t", "h", "u", "b", ".", "c", "o", "m", "/">>
      prefix == IF startswith(s2, https) THEN https
                ELSE IF startswith(s2, http) THEN http ELSE <<>>
      parts == split(SubSeq(s2, Len(prefix) + 1, Len(s2)), "/")
  IN  [ok |-> /\ prefix # <<>>
              /\ Len(parts) = 2
              /\ parts[1] # <<>>
              /\ parts[2] # <<>>,
       url |-> s2]

\* a request as logged: status 0 stands for a requests.RequestException
Req(method, url, arg, body, status) ==
  [method |-> method, url |-> url, arg |-> arg, body |-> body,
   auth |-> token, status |-> status]

Send(method, url, arg, body, status) ==
  requests' = Append(requests, Req(method, url, arg, body, status))

\* str(e) of a requests.RequestException; upload_files_to_github's output is
\* searched for "Error", so there both kinds of text are told apart
NetErrText == <<"t", "i", "m", "e", "d", " ", "o", "u", "t">>
NetErrTexts == {NetErrText, <<"C", "o", "n", "n", "e", "c", "t", "i", "o", "n", "E", "r", "r", "o", "r">>}

\* the handlers' `except ValueError as e: self.output_text = f"Error: {e}\n"`
RaiseValueError(kind, arg) ==
  /\ output_text' = <<Line(kind, arg)>>
  /\ pc' = "done"

\* where get_repo_info returns to
AfterRepoInfo ==
  CASE entry = "run_commands" -> "rc_walk"
    [] entry = "remote_backup" -> "remote_backup_vault"
    [] entry = "restore_remote" -> "restore_remote_vault"
    [] entry = "fetch_branches" -> "get_branches"

\* the branches a repository may designate as default
DefaultBranches == {<<"m", "a", "i", "n">>, <<"m", "a", "s", "t", "e", "r">>}

\* get_repo_info, lines 183-198: the link is validated and split, the repository is fetched
get_repo_info ==
  /\ pc = "get_repo_info"
  /\ LET v == validate_repo_url(Stripped.repo_link)
         parts == split(rstrip_slash(v.url), "/")
         owner == parts[Len(parts) - 1]
         repo == parts[Len(parts)]
     IN  IF ~v.ok
           THEN /\ RaiseValueError("Error: Error parsing repo: ", <<"I", "n", "v", "a", "l", "i", "d", " ", "r", "e", "p", "o", " ", "U", "R", "L">>)
                /\ UNCHANGED <<requests, repo_info>>
           ELSE \E st \in {200, 401, 403, 404, 0} :
                  /\ Send("GET", "/repos/{owner}/{repo}", <<>>, <<>>, st)
                  /\ IF st = 200
                       THEN /\ \E db \in DefaultBranches :
                                 repo_info' = [owner |-> owner, repo |-> repo,
                                               default_branch |-> db]
                            /\ pc' = "gri_branch_check"
                            /\ UNCHANGED output_text
                       ELSE /\ UNCHANGED repo_info
                            /\ IF st = 0
                                 THEN RaiseValueError("Error: Network error: ", NetErrText)
                                 ELSE RaiseValueError("Error: Error parsing repo: ",
                                        IF st = 401 THEN <<"I", "n", "v", "a", "l", "i", "d", " ", "P", "A", "T">>
                                        ELSE IF st = 403 THEN <<"A", "P", "I", " ", "r", "a", "t", "e", " ", "l", "i", "m", "i", "t">>
                                        ELSE <<"R", "e", "p", "o", " ", "n", "o", "t", " ", "f", "o", "u", "n", "d">>)
  /\ UNCHANGED <<vaultVars, variant, ids, fs, cache, output, deskVars, entry, files,
                 uploaded_files, base_sha, idx, latest_run, pulls>>

\* one request of get_repo_info's body after the first: `okst` leads on to
\* `okpc`, status `elsest` to `elsepc` or (elsepc = "") to the ValueError
\* `failmsg`, a RequestException to the "Network error" ValueError
RepoInfoStep(from, method, url, body, okst, okpc, elsest, elsepc, failmsg, setmain) ==
  /\ pc = from
  /\ \E st \in {okst, elsest, 0} :
       /\ Send(method, url, <<>>, body, st)
       /\ IF st = okst
            THEN /\ pc' = okpc
                 /\ repo_info' = IF setmain
                                   THEN [repo_info EXCEPT !.default_branch = <<"m", "a", "i", "n">>]
                                   ELSE repo_info
                 /\ UNCHANGED output_text
          ELSE IF st = 0
            THEN /\ RaiseValueError("Error: Network error: ", NetErrText)
                 /\ UNCHANGED repo_info
          ELSE IF elsepc # ""
            THEN pc' = elsepc /\ UNCHANGED <<output_text, repo_info>>
          ELSE /\ RaiseValueError("Error: Error parsing repo: ", failmsg)
               /\ UNCHANGED repo_info
  /\ UNCHANGED <<vaultVars, variant, ids, fs, cache, output, deskVars, entry, files,
                 uploaded_files, base_sha, idx, latest_run, pulls>>

\* get_repo_info, lines 199-200
gri_branch_check ==
  RepoInfoStep("gri_branch_check", "GET", "/repos/{owner}/{repo}/branches/main", <<>>,
               200, AfterRepoInfo, 404, "gri_create_file", <<>>, FALSE)

\* gri_create_file that goes on to set the default branch although the
\* placeholder commit was rejected
MutGriCreateFile ==
  RepoInfoStep("gri_create_file", "PUT", "/repos/{owner}/{repo}/contents/.init",
               << <<"message", <<"I", "n", "i", "t", "i", "a", "l", "i", "z", "e", " ", "r", "e", "p", "o", "s", "i", "t", "o", "r", "y">>>>,
                  <<"content", <<"I", "n", "i", "t", "i", "a", "l", " ", "c", "o", "m", "m", "i", "t">>>>, <<"branch", <<"m", "a", "i", "n">>>> >>,
               201, "gri_update_repo", 422, "gri_update_repo", <<>>, FALSE)

\* lines 201-213
gri_create_file ==
  RepoInfoStep("gri_create_file", "PUT", "/repos/{owner}/{repo}/contents/.init",
               << <<"message", <<"I", "n", "i", "t", "i", "a", "l", "i", "z", "e", " ", "r", "e", "p", "o", "s", "i", "t", "o", "r", "y">>>>,
                  <<"content", <<"I", "n", "i", "t", "i", "a", "l", " ", "c", "o", "m", "m", "i", "t">>>>, <<"branch", <<"m", "a", "i", "n">>>> >>,
               201, "gri_update_repo", 422, "", <<"E", "r", "r", "o", "r", " ", "c", "r", "e", "a", "t", "i", "n", "g", " ", "m", "a", "i", "n", " ", "b", "r", "a", "n", "c", "h">>, FALSE)

\* lines 214-222
gri_update_repo ==
  RepoInfoStep("gri_update_repo", "PATCH", "/repos/{owner}/{repo}",
               << <<"default_branch", <<"m", "a", "i", "n">>>> >>,
               200, AfterRepoInfo, 403, "", <<"E", "r", "r", "o", "r", " ", "s", "e", "t", "t", "i", "n", "g", " ", "m", "a", "i", "n", " ", "a", "s", " ", "d", "e", "f", "a", "u", "l", "t">>, TRUE)

\* the record save_cached_data writes (mobile)
MobileCacheRecord(f) ==
  [username |-> f.username, email |-> f.email, repo_link |-> f.repo_link,
   commit_message |-> f.commit_message, local_vault |-> f.local_vault_link,
   branch_name |-> branch_name]

\* "Run Git Commands" pressed (mobile), lines 692-712
run_commands_mobile ==
  /\ variant = "mobile"
  /\ pc = "idle"
  /\ LET v == ValidateMobile(Stripped, fs)
     IN  IF v # "ok"
           THEN /\ output_text' = <<Line(v, <<>>)>>
                /\ pc' = "done"
                /\ UNCHANGED entry
           ELSE /\ output_text' = <<Line("Starting sync...", <<>>)>>
                /\ entry' = "run_commands"
                /\ pc' = "get_repo_info"
  /\ UNCHANGED <<vaultVars, variant, ids, fs, cache, output, deskVars, requests, repo_info, files,
                 uploaded_files, base_sha, idx, latest_run, pulls>>

\* the relative paths os.walk yields under a directory
walk(disk, dir) == [i \in 1..Len(disk[normpath(dir)]) |-> disk[normpath(dir)][i].path]

\* run_commands, lines 713-737: the tree is listed, the settings are saved
rc_walk ==
  /\ pc = "rc_walk"
  /\ LET fl == walk(fs, Stripped.local_vault_link)
         validated == Line("Validated repo: ", repo_info.default_branch)
     IN  IF fl = <<>>
           THEN /\ output_text' = output_text \o
                     <<validated, Line("No files in ", Stripped.local_vault_link)>>
                /\ pc' = "done"
                /\ UNCHANGED <<cache, files, output, uploaded_files>>
           ELSE /\ cache' = save_cached_data(MobileCacheRecord(Stripped))
                /\ output_text' = output_text \o
                     <<validated, Line("Found file(s): ", <<>>),
                       Line("Settings saved.", <<>>), Line("Uploading files...", <<>>)>>
                /\ files' = fl
                /\ output' = <<>>
                /\ uploaded_files' = <<>>
                /\ pc' = "upload_files_to_github"
  /\ UNCHANGED <<vaultVars, variant, ids, fs, deskVars, entry, requests, repo_info, base_sha, idx,
                 latest_run, pulls>>

\* the text of a line of upload_files_to_github's output: the literal part of
\* its f-string followed by the interpolated value
KindText(kind) ==
  CASE kind = "Uploaded README.md" -> <<"U", "p", "l", "o", "a", "d", "e", "d", " ", "R", "E", "A", "D", "M", "E", ".", "m", "d">>
    [] kind = "Error uploading README: " -> <<"E", "r", "r", "o", "r", " ", "u", "p", "l", "o", "a", "d", "i", "n", "g", " ", "R", "E", "A", "D", "M", "E", ":", " ">>
    [] kind = "Branch exists, updating: " -> <<"B", "r", "a", "n", "c", "h", " ">>
    [] kind = "Error getting ref: " -> <<"E", "r", "r", "o", "r", " ", "g", "e", "t", "t", "i", "n", "g", " ">>
    [] kind = "Error creating branch: " -> <<"E", "r", "r", "o", "r", " ", "c", "r", "e", "a", "t", "i", "n", "g", " ", "b", "r", "a", "n", "c", "h", ":", " ">>
    [] kind = "Created branch: " -> <<"C", "r", "e", "a", "t", "e", "d", " ", "b", "r", "a", "n", "c", "h", ":", " ">>
    [] kind = "Uploaded: " -> <<"U", "p", "l", "o", "a", "d", "e", "d", ":", " ">>
    [] kind = "Error uploading " -> <<"E", "r", "r", "o", "r", " ", "u", "p", "l", "o", "a", "d", "i", "n", "g", " ">>
    [] kind = "Error processing " -> <<"E", "r", "r", "o", "r", " ", "p", "r", "o", "c", "e", "s", "s", "i", "n", "g", " ">>
    [] kind = "Network error: " -> <<"N", "e", "t", "w", "o", "r", "k", " ", "e", "r", "r", "o", "r", ":", " ">>

LineText(l) == KindText(l.kind) \o l.arg

\* upload_files_to_github's outer `except requests.RequestException`
UploadNetworkError ==
  /\ \E e \in NetErrTexts : output' = Append(output, Line("Network error: ", e))
  /\ pc' = "rc_after_upload"

\* the commit id the remote holds as head of a branch
Sha(branch) == <<"s", "h", "a", "-">> \o branch

\* upload_files_to_github, lines 391-396: the readme probe
up_readme_check ==
  /\ pc = "upload_files_to_github"
  /\ \E st \in {200, 404, 0} :
       /\ Send("GET", "/repos/{owner}/{repo}/contents/readme.md?ref=", branch_name, <<>>, st)
       /\ IF st = 0 THEN UploadNetworkError
          ELSE /\ pc' = IF st = 404 THEN "up_readme_upload" ELSE "up_ref"
               /\ UNCHANGED output
  /\ UNCHANGED <<vaultVars, variant, ids, fs, cache, output_text, deskVars, entry, repo_info, files,
                 uploaded_files, base_sha, idx, latest_run, pulls>>

\* lines 397-412
up_readme_upload ==
  /\ pc = "up_readme_upload"
  /\ \E st \in {201, 422, 0} :
       /\ Send("PUT", "/repos/{owner}/{repo}/contents/README.md", <<>>,
               << <<"message", <<"A", "d", "d", " ", "R", "E", "A", "D", "M", "E", ".", "m", "d">>>>, <<"branch", branch_name>> >>, st)
       /\ IF st = 0 THEN UploadNetworkError /\ UNCHANGED uploaded_files
          ELSE IF st = 201
            THEN /\ output' = Append(output, Line("Uploaded README.md", <<>>))
                 /\ uploaded_files' = Append(uploaded_files, <<"R", "E", "A", "D", "M", "E", ".", "m", "d">>)
                 /\ pc' = "up_ref"
          ELSE /\ output' = Append(output, Line("Error uploading README: ", <<"m", "s", "g">>))
               /\ pc' = "up_ref"
               /\ UNCHANGED uploaded_files
  /\ UNCHANGED <<vaultVars, variant, ids, fs, cache, output_text, deskVars, entry, repo_info, files,
                 base_sha, idx, latest_run, pulls>>

\* lines 414-418: the target branch's ref
up_ref ==
  /\ pc = "up_ref"
  /\ \E st \in {200, 404, 0} :
       /\ Send("GET", "/repos/{owner}/{repo}/git/ref/heads/", branch_name, <<>>, st)
       /\ IF st = 0 THEN UploadNetworkError /\ UNCHANGED <<base_sha, idx>>
          ELSE IF st = 200
            THEN /\ base_sha' = Sha(branch_name)
                 /\ output' = Append(output, Line("Branch exists, updating: ", branch_name))
                 /\ idx' = 0
                 /\ pc' = "up_file"
          ELSE /\ pc' = "up_default_ref"
               /\ UNCHANGED <<output, base_sha, idx>>
  /\ UNCHANGED <<vaultVars, variant, ids, fs, cache, output_text, deskVars, entry, repo_info, files,
                 uploaded_files, latest_run, pulls>>

\* lines 419-423: the default branch's ref
up_default_ref ==
  /\ pc = "up_default_ref"
  /\ \E st \in {200, 404, 0} :
       /\ Send("GET", "/repos/{owner}/{repo}/git/ref/heads/", repo_info.default_branch,
               <<>>, st)
       /\ IF st = 0 THEN UploadNetworkError /\ UNCHANGED base_sha
          ELSE IF st = 200
            THEN /\ base_sha' = Sha(repo_info.default_branch)
                 /\ pc' = "up_create_branch"
                 /\ UNCHANGED output
          ELSE /\ output' = Append(output,
                               Line("Error getting ref: ", repo_info.default_branch))
               /\ pc' = "rc_after_upload"
               /\ UNCHANGED base_sha
  /\ UNCHANGED <<vaultVars, variant, ids, fs, cache, output_text, deskVars, entry, repo_info, files,
                 uploaded_files, idx, latest_run, pulls>>

\* lines 424-432: the branch is created from base_sha
up_create_branch ==
  /\ pc = "up_create_branch"
  /\ \E st \in {201, 422, 0} :
       /\ Send("POST", "/repos/{owner}/{repo}/git/refs", branch_name,
               << <<"ref", <<"r", "e", "f", "s", "/", "h", "e", "a", "d", "s", "/">> \o branch_name>>, <<"sha", base_sha>> >>, st)
       /\ IF st = 0 THEN UploadNetworkError /\ UNCHANGED idx
          ELSE IF st = 201
            THEN /\ output' = Append(output, Line("Created branch: ", branch_name))
                 /\ idx' = 0
                 /\ pc' = "up_file"
          ELSE /\ output' = Append(output, Line("Error creating branch: ", <<"m", "s", "g">>))
               /\ pc' = "rc_after_upload"
               /\ UNCHANGED idx
  /\ UNCHANGED <<vaultVars, variant, ids, fs, cache, output_text, deskVars, entry, repo_info, files,
                 uploaded_files, base_sha, latest_run, pulls>>

\* how many files the walk of lines 434-435 yields
NFiles == Len(walk(fs, Stripped.local_vault_link))

\* an upload loop that a refused PUT would leave
MutAfterFilePc(st) == IF st = 201 THEN "up_file" ELSE "rc_after_upload"

\* where the upload loop goes after a file, whatever the PUT answered: on to
\* the next file (neither branch of lines 451-457 leaves the loop)
AfterFilePc(st) == "up_file"

\* lines 434-457: one turn of the upload loop; reading the file or the PUT may
\* raise, which the loop's own `except Exception` turns into a line
up_file ==
  /\ pc = "up_file"
  /\ idx < NFiles
  /\ LET rel_path == walk(fs, Stripped.local_vault_link)[idx + 1]
     IN  \/ /\ output' = Append(output, Line("Error processing ",
                                              rel_path \o <<":", " ", "P", "e", "r", "m", "i", "s", "s", "i", "o", "n", " ", "d", "e", "n", "i", "e", "d">>))
            /\ pc' = "up_file"
            /\ UNCHANGED <<requests, uploaded_files>>
         \/ \E st \in {201, 409, 0} :
              /\ pc' = AfterFilePc(st)
              /\ Send("PUT", "/repos/{owner}/{repo}/contents/{rel_path}", rel_path,
                      << <<"message", <<"A", "d", "d", " ">> \o rel_path>>, <<"branch", branch_name>> >>, st)
              /\ IF st = 201
                   THEN /\ output' = Append(output, Line("Uploaded: ", rel_path))
                        /\ uploaded_files' = Append(uploaded_files, rel_path)
                 ELSE IF st = 0
                   THEN /\ \E e \in NetErrTexts :
                             output' = Append(output,
                                              Line("Error processing ", rel_path \o <<":", " ">> \o e))
                        /\ UNCHANGED uploaded_files
                 ELSE /\ output' = Append(output,
                                          Line("Error uploading ", rel_path \o <<":", " ", "m", "s", "g">>))
                      /\ UNCHANGED uploaded_files
  /\ idx' = idx + 1
  /\ UNCHANGED <<vaultVars, variant, ids, fs, cache, output_text, deskVars, entry, repo_info, files,
                 base_sha, latest_run, pulls>>

\* line 458: the loop is over, `return output, uploaded_files`
up_return ==
  /\ pc = "up_file"
  /\ idx = NFiles
  /\ pc' = "rc_after_upload"
  /\ UNCHANGED <<vaultVars, variant, ids, fs, cache, output_text, output, deskVars, mobVars>>

\* any("Error" in line for line in output)
AnyError(out) == \E i \in 1..Len(out) : InStr(<<"E", "r", "r", "o", "r">>, LineText(out[i]))

\* run_commands, lines 738-745
rc_after_upload ==
  /\ pc = "rc_after_upload"
  /\ IF uploaded_files = <<>>
       THEN /\ output_text' = output_text \o output \o
                                <<Line("Error: No files uploaded. Check folder.", <<>>)>>
            /\ pc' = "done"
            /\ UNCHANGED <<output, idx>>
     ELSE IF AnyError(output)
       THEN /\ output_text' = output_text \o output
            /\ pc' = "done"
            /\ UNCHANGED <<output, idx>>
     ELSE /\ output_text' = output_text \o output \o <<Line("Running workflow...", <<>>)>>
          /\ output' = <<>>
          /\ idx' = 0
          /\ pc' = "trigger_github_workflow"
  /\ UNCHANGED <<vaultVars, variant, ids, fs, cache, deskVars, entry, requests, repo_info, files,
                 uploaded_files, base_sha, latest_run, pulls>>

\* one attempt more than the loop makes
MutPollAttempts == 13

\* trigger_github_workflow: `for _ in range(12)`
PollAttempts == 12

NoRun == [id |-> 0, status |-> "none", conclusion |-> "none"]

\* what the head of the branch's run list may be: nothing yet, the run of an
\* earlier dispatch (id 1) or the run this dispatch started (id 2)
LatestRuns ==
  {NoRun} \cup
  {[id |-> 1, status |-> "completed", conclusion |-> c] : c \in {"success", "failure"}} \cup
  {[id |-> 2, status |-> s, conclusion |-> "none"] : s \in {"queued", "in_progress"}} \cup
  {[id |-> 2, status |-> "completed", conclusion |-> c] : c \in {"success", "failure"}}

\* run_commands passes `commit_message or "Auto sync"`
commit_message_or_default ==
  IF Stripped.commit_message # <<>> THEN Stripped.commit_message ELSE <<"A", "u", "t", "o", " ", "s", "y", "n", "c">>

\* trigger_github_workflow's two handlers and early returns all `return output`
WorkflowReturn(line) ==
  /\ output' = Append(output, line)
  /\ pc' = "rc_after_workflow"

\* trigger_github_workflow, lines 473-490: the dispatch; run_commands passes the
\* token as `username`
wf_dispatch ==
  /\ pc = "trigger_github_workflow"
  /\ \E st \in {204, 404, 0} :
       /\ Send("POST", "/repos/{owner}/{repo}/actions/workflows/git-sync.yml/dispatches",
               branch_name,
               << <<"ref", branch_name>>, <<"username", token>>,
                  <<"email", Stripped.email>>,
                  <<"commit_message", commit_message_or_default>>,
                  <<"default_branch", repo_info.default_branch>> >>, st)
       /\ IF st = 0
            THEN WorkflowReturn(Line("Network error in workflow: ", NetErrText))
          ELSE IF st # 204
            THEN WorkflowReturn(Line("Error triggering workflow: ", <<"m", "s", "g">>))
          ELSE /\ output' = Append(output, Line("Triggered workflow", <<>>))
               /\ pc' = "wf_poll"
  /\ idx' = 0
  /\ UNCHANGED <<vaultVars, variant, ids, fs, cache, output_text, deskVars, entry, repo_info, files,
                 uploaded_files, base_sha, latest_run, pulls>>

\* line 507: the polled run is completed
PollCompleted(run) == run.status = "completed"

\* lines 492-510, 519: one turn of the polling loop
wf_poll ==
  /\ pc = "wf_poll"
  /\ idx < PollAttempts
  /\ \E st \in {200, 500, 0} :
       /\ Send("GET", "/repos/{owner}/{repo}/actions/runs", branch_name, <<>>, st)
       /\ IF st = 0
            THEN /\ WorkflowReturn(Line("Network error in workflow: ", NetErrText))
                 /\ UNCHANGED <<idx, latest_run>>
          ELSE IF st # 200
            THEN /\ WorkflowReturn(Line("Error checking workflow status: ", <<"m", "s", "g">>))
                 /\ UNCHANGED <<idx, latest_run>>
          ELSE \E run \in LatestRuns :
                 IF run # NoRun /\ PollCompleted(run)
                   THEN /\ latest_run' = run
                        /\ UNCHANGED idx
                        /\ IF run.conclusion = "success"
                             THEN WorkflowReturn(Line("Workflow completed successfully", <<>>))
                             ELSE pc' = "wf_jobs" /\ UNCHANGED output
                   ELSE /\ idx' = idx + 1
                        /\ UNCHANGED <<pc, output, latest_run>>
  /\ UNCHANGED <<vaultVars, variant, ids, fs, cache, output_text, deskVars, entry, repo_info, files,
                 uploaded_files, base_sha, pulls>>

\* the loop running out reported as an error
MutTimedOutLine == Line("Error checking workflow status: ", <<"t", "i", "m", "e", "o", "u", "t">>)

\* line 520
TimedOutLine == Line("Workflow timed out", <<>>)

\* lines 520-521: the loop ran out
wf_timed_out ==
  /\ pc = "wf_poll"
  /\ idx = PollAttempts
  /\ WorkflowReturn(TimedOutLine)
  /\ UNCHANGED <<vaultVars, variant, ids, fs, cache, output_text, deskVars, entry, requests,
                 repo_info, files, uploaded_files, base_sha, idx, latest_run, pulls>>

\* the jobs a run may list
JobLists == {<<"failure", "success">>}

RECURSIVE JobLines(_)
JobLines(jobs) ==
  IF jobs = <<>> THEN <<>>
  ELSE (IF Head(jobs) = "failure"
          THEN <<Line("Workflow failed: job ", <<>>), Line("Logs: ", <<>>)>>
          ELSE <<>>) \o JobLines(Tail(jobs))

\* lines 511-518: the failed run's jobs are fetched for the log
wf_jobs ==
  /\ pc = "wf_jobs"
  /\ \E st \in {200, 404, 0} :
       /\ Send("GET", "/repos/{owner}/{repo}/actions/runs/{run_id}/jobs", <<>>, <<>>, st)
       /\ IF st = 0
            THEN WorkflowReturn(Line("Network error in workflow: ", NetErrText))
          ELSE /\ \E jobs \in JobLists :
                    output' = output \o (IF st = 200 THEN JobLines(jobs) ELSE <<>>)
                                \o <<Line("Workflow failed: conclusion", <<>>)>>
               /\ pc' = "rc_after_workflow"
  /\ UNCHANGED <<vaultVars, variant, ids, fs, cache, output_text, deskVars, entry, repo_info, files,
                 uploaded_files, base_sha, idx, latest_run, pulls>>

\* run_commands, lines 747-749
rc_after_workflow ==
  /\ pc = "rc_after_workflow"
  /\ output_text' = output_text \o output
  /\ output' = <<>>
  /\ pc' = "auto_merge_pull_requests"
  /\ UNCHANGED <<vaultVars, variant, ids, fs, cache, deskVars, mobVars>>

\* the most pull requests the remote lists as open
MaxPulls == 2

\* auto_merge_pull_requests' handlers and early return all `return output`
PullsReturn(line) ==
  /\ output' = Append(output, line)
  /\ pc' = "pr_return"

\* auto_merge_pull_requests, lines 360-364
pr_list ==
  /\ pc = "auto_merge_pull_requests"
  /\ \E st \in {200, 403, 0} :
       /\ Send("GET", "/repos/{owner}/{repo}/pulls", <<>>, <<>>, st)
       /\ IF st = 0
            THEN /\ PullsReturn(Line("Network error merging PRs: ", NetErrText))
                 /\ UNCHANGED <<pulls, idx>>
          ELSE IF st # 200
            THEN /\ PullsReturn(Line("Error fetching PRs: ", <<"m", "s", "g">>))
                 /\ UNCHANGED <<pulls, idx>>
          ELSE /\ \E n \in 0..MaxPulls : pulls' = [i \in 1..n |-> i]
               /\ idx' = 0
               /\ pc' = "pr_merge"
               /\ UNCHANGED output
  /\ UNCHANGED <<vaultVars, variant, ids, fs, cache, output_text, deskVars, entry, repo_info, files,
                 uploaded_files, base_sha, latest_run>>

\* pr_merge that leaves the loop at the first pull request that does not merge
MutPrMerge ==
  /\ pc = "pr_merge"
  /\ idx < Len(pulls)
  /\ \E st \in {200, 405, 0} :
       /\ Send("PUT", "/repos/{owner}/{repo}/pulls/{pr_number}/merge", <<>>,
               << <<"merge_method", <<"s", "q", "u", "a", "s", "h">>>>, <<"number", <<pulls[idx + 1]>> >> >>, st)
       /\ IF st = 0
            THEN PullsReturn(Line("Network error merging PRs: ", NetErrText))
          ELSE IF st = 200
            THEN /\ output' = Append(output, Line("Merged PR #", <<pulls[idx + 1]>>))
                 /\ UNCHANGED pc
          ELSE PullsReturn(Line("Error merging PR #", <<pulls[idx + 1]>>))
       /\ idx' = IF st = 200 THEN idx + 1 ELSE idx
  /\ UNCHANGED <<vaultVars, variant, ids, fs, cache, output_text, deskVars, entry, repo_info, files,
                 uploaded_files, base_sha, latest_run, pulls>>

\* lines 364-374: one turn of the merge loop
pr_merge ==
  /\ pc = "pr_merge"
  /\ idx < Len(pulls)
  /\ \E st \in {200, 405, 0} :
       /\ Send("PUT", "/repos/{owner}/{repo}/pulls/{pr_number}/merge", <<>>,
               << <<"merge_method", <<"s", "q", "u", "a", "s", "h">>>>, <<"number", <<pulls[idx + 1]>> >> >>, st)
       /\ IF st = 0
            THEN /\ PullsReturn(Line("Network error merging PRs: ", NetErrText))
                 /\ UNCHANGED idx
          ELSE /\ output' = Append(output,
                      IF st = 200 THEN Line("Merged PR #", <<pulls[idx + 1]>>)
                      ELSE Line("Error merging PR #", <<pulls[idx + 1]>>))
               /\ idx' = idx + 1
               /\ UNCHANGED pc
  /\ UNCHANGED <<vaultVars, variant, ids, fs, cache, output_text, deskVars, entry, repo_info, files,
                 uploaded_files, base_sha, latest_run, pulls>>

\* line 375: the loop is over, `return output`
pr_done ==
  /\ pc = "pr_merge"
  /\ idx = Len(pulls)
  /\ pc' = "pr_return"
  /\ UNCHANGED <<vaultVars, variant, ids, fs, cache, output_text, output, deskVars, mobVars>>

\* rc_finish that shows the pull requests' lines in place of the run's log
MutRcFinish ==
  /\ pc = "pr_return"
  /\ entry = "run_commands"
  /\ output_text' = output
  /\ pc' = "done"
  /\ UNCHANGED <<vaultVars, variant, ids, fs, cache, output, deskVars, mobVars>>

\* run_commands, line 750
rc_finish ==
  /\ pc = "pr_return"
  /\ entry = "run_commands"
  /\ output_text' = output_text \o output
  /\ pc' = "done"
  /\ UNCHANGED <<vaultVars, variant, ids, fs, cache, output, deskVars, mobVars>>

NextMobile ==
  \/ run_commands_mobile
  \/ get_repo_info
  \/ gri_branch_check
  \/ gri_create_file
  \/ gri_update_repo
  \/ rc_walk
  \/ up_readme_check
  \/ up_readme_upload
  \/ up_ref
  \/ up_default_ref
  \/ up_create_branch
  \/ up_file
  \/ up_return
  \/ rc_after_upload
  \/ wf_dispatch
  \/ wf_poll
  \/ wf_timed_out
  \/ wf_jobs
  \/ rc_after_workflow
  \/ pr_list
  \/ pr_merge
  \/ pr_done
  \/ rc_finish

(* ------------------------------------------ remote backup and restore *)

\* the characters file names are made of, in code-point order
CodePoints == <<".", "0", "1", "2", "3", "4", "5", "6", "7", "8", "9", "A", "B", "C", "D", "E", "F", "G", "H", "I", "J", "K", "L", "M", "N", "O", "P", "Q", "R", "S", "T", "U", "V", "W", "X", "Y", "Z", "_", "a", "b", "c", "d", "e", "f", "g", "h", "i", "j", "k", "l", "m", "n", "o", "p", "q", "r", "s", "t", "u", "v", "w", "x", "y", "z">>
ord(c) == CHOOSE i \in 1..Len(CodePoints) : CodePoints[i] = c

\* a < b as Python orders str
RECURSIVE StrLess(_, _)
StrLess(a, b) ==
  IF b = <<>> THEN FALSE
  ELSE IF a = <<>> THEN TRUE
  ELSE IF Head(a) = Head(b) THEN StrLess(Tail(a), Tail(b))
  ELSE ord(Head(a)) < ord(Head(b))

\* a file as zipfile sees it: whether it opens as an archive, and its members
Archive(valid, entries) == [valid |-> valid, entries |-> entries]
NotAZip == Archive(FALSE, <<>>)

\* an entry of a branch's root listing
Item(name, content) == [name |-> name, content |-> content]
NoItem == Item(<<>>, NotAZip)

\* the repository without a backup branch
NoRemote == [refs |-> {}, backup |-> {}]

\* the files at the head of the default branch, which a branch created from it
\* starts with: the README and an archive the user keeps in the vault
DefaultTree ==
  {Item(<<"R", "E", "A", "D", "M", "E", ".", "m", "d">>, NotAZip),
   Item(<<"n", "o", "t", "e", "s", ".", "z", "i", "p">>, Archive(TRUE, <<File(<<"o", "l", "d", ".", "m", "d">>, "c0")>>))}

\* the repositories a backup or restore may face: without a backup branch, or
\* with one that holds no archive yet
Remotes == {NoRemote, [refs |-> {"backup"}, backup |-> {Item(<<"R", "E", "A", "D", "M", "E", ".", "m", "d">>, NotAZip)}]}

\* what the fields read by the backup and restore buttons may hold
VaultTokens == {<<>>, <<"u">>}
VaultRepoLinks == {<<>>, <<"h", "t", "t", "p", "s", ":", "/", "/", "g", "i", "t", "h", "u", "b", ".", "c", "o", "m", "/", "o", "/", "r", ".", "g", "i", "t">>}
VaultPaths == {<<>>, <<"b", "/">>, <<"c">>}

\* the most button presses followed, and the last second of the clock
MaxRuns == 3
MaxClock == 2

vault_path == Stripped.local_vault_link

\* a backup or restore button is pressed: the handler's locals are fresh, the
\* fields are checked (lines 586-591, 602-607). The widget keeps the last run's
\* text until this run assigns its own; no handler reads it, and it is cleared
\* here.
PressWith(handler, fields, required) ==
  /\ variant = "mobile"
  /\ pc \in {"idle", "done"}
  /\ runs < MaxRuns
  /\ runs' = runs + 1
  /\ entry' = handler
  /\ requests' = <<>>
  /\ output' = <<>>
  /\ repo_info' = [owner |-> <<>>, repo |-> <<>>, default_branch |-> <<>>]
  /\ base_sha' = <<>>
  /\ idx' = 0
  /\ pulls' = <<>>
  /\ latest_backup' = NoItem
  /\ fs_at_press' = fs
  /\ IF ~all(fields)
       THEN output_text' = <<Line(required, <<>>)>> /\ pc' = "done"
       ELSE output_text' = <<>> /\ pc' = "get_repo_info"
  /\ UNCHANGED <<variant, ids, fs, cache, deskVars, files, uploaded_files, latest_run,
                 remote, clock, temp_backup, backups, gitVars>>

Press(handler, required) ==
  PressWith(handler, <<vault_path, token, Stripped.repo_link>>, required)

\* GitConfigLayout.fetch_branches, lines 566-573
fetch_branches ==
  PressWith("fetch_branches", <<token, Stripped.repo_link>>,
            "Error: Enter PAT and repo URL to fetch branches.")

\* the names GET /branches lists: the default branch, and backup once created
BranchList ==
  <<repo_info.default_branch>> \o (IF "backup" \in remote.refs THEN <<<<"b", "a", "c", "k", "u", "p">>>> ELSE <<>>)

\* ', '.join(names)
RECURSIVE comma_join(_)
comma_join(names) ==
  IF names = <<>> THEN <<>>
  ELSE IF Len(names) = 1 THEN names[1]
  ELSE names[1] \o <<",", " ">> \o comma_join(Tail(names))

\* get_branches that raises when the listing is refused or cut off
MutGetBranches ==
  /\ pc = "get_branches"
  /\ \E st \in {200, 403, 0} :
       /\ Send("GET", "/repos/{owner}/{repo}/branches", <<>>, <<>>, st)
       /\ output_text' =
            IF st = 200
              THEN <<Line("Available branches: ", comma_join(BranchList))>>
              ELSE <<Line("Error fetching branches: ", <<>>)>>
  /\ pc' = "done"
  /\ UNCHANGED <<vaultVars, variant, ids, fs, cache, output, deskVars, entry, repo_info,
                 files, uploaded_files, base_sha, idx, latest_run, pulls>>

\* get_branches, lines 228-239, and lines 574-578 of fetch_branches: a status
\* that is not 200 and a RequestException both give the empty list
get_branches ==
  /\ pc = "get_branches"
  /\ \E st \in {200, 403, 0} :
       /\ Send("GET", "/repos/{owner}/{repo}/branches", <<>>, <<>>, st)
       /\ output_text' =
            IF st = 200
              THEN <<Line("Available branches: ", comma_join(BranchList))>>
              ELSE <<Line("No branches found or error fetching branches.", <<>>)>>
  /\ pc' = "done"
  /\ UNCHANGED <<vaultVars, variant, ids, fs, cache, output, deskVars, entry, repo_info,
                 files, uploaded_files, base_sha, idx, latest_run, pulls>>

\* GitConfigLayout.remote_backup, lines 584-592
remote_backup ==
  Press("remote_backup", "Error: Vault folder, PAT, and repo URL are required.")

\* GitConfigLayout.restore_remote, lines 600-608
restore_remote ==
  Press("restore_remote", "Error: Vault, PAT, and repo URL required.")

\* create_zip, lines 245-250: every file of the vault, under "Obsidian-Vault/"
create_zip(disk, path) ==
  Archive(TRUE, [i \in 1..Len(disk[normpath(path)]) |->
                   File(<<"O", "b", "s", "i", "d", "i", "a", "n", "-", "V", "a", "u", "l", "t", "/">> \o disk[normpath(path)][i].path,
                        disk[normpath(path)][i].content)])

\* the exceptions writing the archive may raise: the file cannot be opened, or
\* the disk fills up after it has been opened
ZipErrors ==
  {[text |-> <<"[", "E", "r", "r", "n", "o", " ", "1", "3", "]", " ", "P", "e", "r", "m", "i", "s", "s", "i", "o", "n", " ", "d", "e", "n", "i", "e", "d">>, written |-> FALSE],
   [text |-> <<"[", "E", "r", "r", "n", "o", " ", "2", "8", "]", " ", "N", "o", " ", "s", "p", "a", "c", "e", " ", "l", "e", "f", "t", " ", "o", "n", " ", "d", "e", "v", "i", "c", "e">>, written |-> TRUE]}

\* remote_backup_vault's handler of requests.RequestException
BackupNetworkError ==
  /\ output' = Append(output, Line("Network error: ", NetErrText))
  /\ pc' = "rb_return"

\* remote_backup_vault, lines 262-265, with create_zip
rb_create_zip ==
  /\ pc = "remote_backup_vault"
  /\ IF ~isdir(fs, vault_path)
       THEN /\ output' = <<Line("Error: Vault not found", vault_path)>>
            /\ pc' = "rb_return"
            /\ UNCHANGED temp_backup
       ELSE \/ /\ temp_backup' = <<create_zip(fs, vault_path)>>
               /\ output' = <<Line("Created zip: ", <<>>)>>
               /\ pc' = "rb_backup_ref"
            \/ \E e \in ZipErrors :
                 /\ temp_backup' = IF e.written THEN <<NotAZip>> ELSE temp_backup
                 /\ output' = <<Line("Zip creation failed: ", e.text)>>
                 /\ pc' = IF InStr(<<"E", "r", "r", "o", "r">>, <<"Z", "i", "p", " ", "c", "r", "e", "a", "t", "i", "o", "n", " ", "f", "a", "i", "l", "e", "d", ":", " ">> \o e.text)
                            THEN "rb_return" ELSE "rb_backup_ref"
  /\ UNCHANGED <<variant, ids, fs, cache, output_text, deskVars, mobVars, remote, clock,
                 latest_backup, runs, backups, fs_at_press, gitVars>>

\* lines 267-268: does the backup branch exist
rb_backup_ref ==
  /\ pc = "rb_backup_ref"
  /\ \E st \in {IF "backup" \in remote.refs THEN 200 ELSE 404, 0} :
       /\ Send("GET", "/repos/{owner}/{repo}/git/ref/heads/backup", <<>>, <<>>, st)
       /\ IF st = 0 THEN BackupNetworkError
          ELSE /\ pc' = IF st = 200 THEN "rb_upload" ELSE "rb_default_ref"
               /\ UNCHANGED output
  /\ UNCHANGED <<vaultVars, variant, ids, fs, cache, output_text, deskVars, entry, repo_info,
                 files, uploaded_files, base_sha, idx, latest_run, pulls>>

\* lines 269-272
rb_default_ref ==
  /\ pc = "rb_default_ref"
  /\ \E st \in {200, 404, 0} :
       /\ Send("GET", "/repos/{owner}/{repo}/git/ref/heads/", repo_info.default_branch,
               <<>>, st)
       /\ IF st = 0 THEN BackupNetworkError /\ UNCHANGED base_sha
          ELSE IF st = 200
            THEN /\ base_sha' = Sha(repo_info.default_branch)
                 /\ pc' = "rb_create_backup"
                 /\ UNCHANGED output
          ELSE /\ output' = Append(output,
                               Line("Error getting ref: ", repo_info.default_branch))
               /\ pc' = "rb_return"
               /\ UNCHANGED base_sha
  /\ UNCHANGED <<vaultVars, variant, ids, fs, cache, output_text, deskVars, entry, repo_info,
                 files, uploaded_files, idx, latest_run, pulls>>

\* lines 273-281: the backup branch is created at the default branch's head
rb_create_backup ==
  /\ pc = "rb_create_backup"
  /\ \E st \in {201, 422, 0} :
       /\ Send("POST", "/repos/{owner}/{repo}/git/refs", <<"b", "a", "c", "k", "u", "p">>,
               << <<"ref", <<"r", "e", "f", "s", "/", "h", "e", "a", "d", "s", "/", "b", "a", "c", "k", "u", "p">>>>, <<"sha", base_sha>> >>, st)
       /\ IF st = 0 THEN BackupNetworkError /\ UNCHANGED remote
          ELSE IF st = 201
            THEN /\ remote' = [refs |-> remote.refs \cup {"backup"}, backup |-> DefaultTree]
                 /\ output' = Append(output, Line("Created backup branch", <<>>))
                 /\ pc' = "rb_upload"
          ELSE /\ output' = Append(output, Line("Error creating backup branch: ", <<"m", "s", "g">>))
               /\ pc' = "rb_return"
               /\ UNCHANGED remote
  /\ UNCHANGED <<variant, ids, fs, cache, output_text, deskVars, entry, repo_info, files,
                 uploaded_files, base_sha, idx, latest_run, pulls, clock, temp_backup,
                 latest_backup, runs, backups, fs_at_press, gitVars>>

Digits == <<"0", "1", "2", "3", "4", "5", "6", "7", "8", "9">>

\* datetime.now().strftime("%Y%m%d_%H%M%S"): fixed-width, zero-padded decimal
\* fields; the seconds stand for all of them
strftime(t) == <<Digits[(t \div 10) + 1], Digits[(t % 10) + 1]>>

\* the branch's files had the upload replaced the earlier backups
MutTreeAfterUpload(tree, item) ==
  {x \in tree : ~(startswith(x.name, <<"b", "a", "c", "k", "u", "p", "_">>) /\ endswith(x.name, <<".", "z", "i", "p">>))}
    \cup {item}

\* the backup branch's files once the PUT of lines 291-295 has added one: the
\* request names no other path, nothing is removed
TreeAfterUpload(tree, item) == tree \cup {item}

\* lines 283-300: the archive is read and uploaded under the current time's
\* name; a PUT to a path the branch already holds carries no sha and is refused
rb_upload ==
  /\ pc = "rb_upload"
  /\ IF temp_backup = <<>>
       THEN /\ output' = Append(output, Line("Remote backup error: ", <<"N", "o", " ", "s", "u", "c", "h", " ", "f", "i", "l", "e">>))
            /\ pc' = "rb_return"
            /\ UNCHANGED <<requests, remote, clock, temp_backup, backups>>
       ELSE \E t \in clock..MaxClock :
              LET name == <<"b", "a", "c", "k", "u", "p", "_">> \o strftime(t) \o <<".", "z", "i", "p">>
                  held == \E x \in remote.backup : x.name = name
              IN  \E st \in {IF held THEN 422 ELSE 201, 403, 0} :
                    /\ clock' = t
                    /\ Send("PUT", "/repos/{owner}/{repo}/contents/backup_{timestamp}.zip",
                            name,
                            << <<"message", <<"R", "e", "m", "o", "t", "e", " ", "b", "a", "c", "k", "u", "p", " ">> \o strftime(t)>>,
                               <<"branch", <<"b", "a", "c", "k", "u", "p">>>> >>, st)
                    /\ IF st = 0
                         THEN BackupNetworkError /\ UNCHANGED <<remote, temp_backup, backups>>
                       ELSE IF st = 201
                         THEN /\ remote' = [remote EXCEPT !.backup =
                                              TreeAfterUpload(@, Item(name, temp_backup[1]))]
                              /\ output' = Append(output, Line("Uploaded remote backup", <<>>))
                              /\ temp_backup' = <<>>
                              /\ backups' = Append(backups, name)
                              /\ pc' = "auto_merge_pull_requests"
                       ELSE /\ output' = Append(output,
                                                Line("Error uploading backup: ", <<"m", "s", "g">>))
                            /\ pc' = "rb_return"
                            /\ UNCHANGED <<remote, temp_backup, backups>>
  /\ UNCHANGED <<variant, ids, fs, cache, output_text, deskVars, entry, repo_info, files,
                 uploaded_files, base_sha, idx, latest_run, pulls, latest_backup, runs, fs_at_press, gitVars>>

\* remote_backup, line 594: the log remote_backup_vault returned is shown
rb_finish ==
  /\ pc \in {"rb_return", "pr_return"}
  /\ entry = "remote_backup"
  /\ output_text' = output
  /\ pc' = "done"
  /\ UNCHANGED <<vaultVars, variant, ids, fs, cache, output, deskVars, mobVars>>

\* max(backups, key=lambda x: x["name"])
max_by_name(items) == CHOOSE x \in items : \A y \in items : ~StrLess(x.name, y.name)

\* restore_remote_vault's handler of requests.RequestException
RestoreNetworkError ==
  /\ output' = Append(output, Line("Network error: ", NetErrText))
  /\ pc' = "rr_return"

\* restore_remote_vault, lines 319-328: the backup branch is listed and the
\* entry to restore is picked
rr_contents ==
  /\ pc = "restore_remote_vault"
  /\ \E st \in {IF "backup" \in remote.refs THEN 200 ELSE 404, 0} :
       /\ Send("GET", "/repos/{owner}/{repo}/contents?ref=backup", <<>>, <<>>, st)
       /\ IF st = 0 THEN RestoreNetworkError /\ UNCHANGED latest_backup
          ELSE IF st # 200
            THEN /\ output' = Append(output, Line("Error accessing backup branch: ", <<"m", "s", "g">>))
                 /\ pc' = "rr_return"
                 /\ UNCHANGED latest_backup
          ELSE LET zips == {item \in remote.backup : endswith(item.name, <<".", "z", "i", "p">>)}
               IN  IF zips = {}
                     THEN /\ output' = Append(output,
                                 Line("Error: No backups found in backup branch", <<>>))
                          /\ pc' = "rr_return"
                          /\ UNCHANGED latest_backup
                     ELSE /\ latest_backup' = max_by_name(zips)
                          /\ pc' = "rr_download"
                          /\ UNCHANGED output
  /\ UNCHANGED <<variant, ids, fs, cache, output_text, deskVars, entry, repo_info, files,
                 uploaded_files, base_sha, idx, latest_run, pulls, remote, clock,
                 temp_backup, runs, backups, fs_at_press, gitVars>>

\* lines 330-336: the entry is downloaded (no headers are sent) and written to
\* TEMP_BACKUP
rr_download ==
  /\ pc = "rr_download"
  /\ \E st \in {200, 404, 0} :
       /\ requests' = Append(requests,
                             [Req("GET", "{download_url}", latest_backup.name, <<>>, st)
                                EXCEPT !.auth = <<>>])
       /\ IF st = 0 THEN RestoreNetworkError /\ UNCHANGED temp_backup
          ELSE IF st # 200
            THEN /\ output' = Append(output, Line("Error downloading backup: ", <<"4", "0", "4">>))
                 /\ pc' = "rr_return"
                 /\ UNCHANGED temp_backup
          ELSE /\ temp_backup' = <<latest_backup.content>>
               /\ output' = Append(output, Line("Downloaded backup: ", latest_backup.name))
               /\ pc' = "rr_extract"
  /\ UNCHANGED <<variant, ids, fs, cache, output_text, deskVars, entry, repo_info, files,
                 uploaded_files, base_sha, idx, latest_run, pulls, remote, clock,
                 latest_backup, runs, backups, fs_at_press, gitVars>>

\* lines 338-344: the vault directory is removed and made anew, the archive is
\* extracted into it; a file that is no archive, or an extraction that fails,
\* raises after the directory has been emptied
rr_extract ==
  /\ pc = "rr_extract"
  /\ \E extracted \in (IF temp_backup[1].valid THEN {TRUE, FALSE} ELSE {FALSE}) :
       /\ fs' = [p \in DOMAIN fs \cup {normpath(vault_path)} |->
                   IF p = normpath(vault_path)
                     THEN (IF extracted THEN temp_backup[1].entries ELSE <<>>)
                     ELSE fs[p]]
       /\ IF extracted
            THEN /\ output' = Append(output,
                                     Line("Restored vault from ", latest_backup.name))
                 /\ temp_backup' = <<>>
            ELSE /\ output' = Append(output, Line("Restore error: ", <<"B", "a", "d", "Z", "i", "p", "F", "i", "l", "e">>))
                 /\ UNCHANGED temp_backup
       /\ pc' = "rr_return"
  /\ UNCHANGED <<variant, ids, cache, output_text, deskVars, mobVars, remote, clock,
                 latest_backup, runs, backups, fs_at_press, gitVars>>

\* restore_remote, line 610: the log restore_remote_vault returned is shown
rr_finish ==
  /\ pc = "rr_return"
  /\ entry = "restore_remote"
  /\ output_text' = output
  /\ pc' = "done"
  /\ UNCHANGED <<vaultVars, variant, ids, fs, cache, output, deskVars, mobVars>>

NextVault ==
  \/ fetch_branches
  \/ get_branches
  \/ remote_backup
  \/ restore_remote
  \/ get_repo_info
  \/ gri_branch_check
  \/ gri_create_file
  \/ gri_update_repo
  \/ rb_create_zip
  \/ rb_backup_ref
  \/ rb_default_ref
  \/ rb_create_backup
  \/ rb_upload
  \/ pr_list
  \/ pr_merge
  \/ pr_done
  \/ rb_finish
  \/ rr_contents
  \/ rr_download
  \/ rr_extract
  \/ rr_finish

(* ------------------------------------- desktop: the remote named origin *)

NoRemotes == <<>>

RemoteEntry(name, url) == [name |-> name, url |-> url]

\* the links the remote is set to
EnsureRemoteLinks ==
  {<<"h", "t", "t", "p", "s", ":", "/", "/", "g", "i", "t", "h", "u", "b", ".", "c", "o", "m", "/", "o", "/", "r", ".", "g", "i", "t">>, <<"h", "t", "t", "p", "s", ":", "/", "/", "g", "i", "t", "h", "u", "b", ".", "c", "o", "m", "/", "o", "/", "q", ".", "g", "i", "t">>, <<"h", "t", "t", "p", "s", ":", "/", "/", "g", "i", "t", "h", "u", "b", ".", "c", "o", "m", "/", "o", "/", "r">>}

\* the remotes a working copy may have before the run, in the order git lists them
WorkingCopies ==
  { NoRemotes,
    <<RemoteEntry(<<"o", "r", "i", "g", "i", "n">>, <<"h", "t", "t", "p", "s", ":", "/", "/", "g", "i", "t", "h", "u", "b", ".", "c", "o", "m", "/", "o", "/", "r", ".", "g", "i", "t">>)>>,
    <<RemoteEntry(<<"o", "r", "i", "g", "i", "n">>, <<"h", "t", "t", "p", "s", ":", "/", "/", "g", "i", "t", "h", "u", "b", ".", "c", "o", "m", "/", "o", "/", "o", "l", "d", ".", "g", "i", "t">>)>>,
    <<RemoteEntry(<<"u", "p", "s", "t", "r", "e", "a", "m">>, <<"h", "t", "t", "p", "s", ":", "/", "/", "g", "i", "t", "h", "u", "b", ".", "c", "o", "m", "/", "o", "/", "r", ".", "g", "i", "t">>)>>,
    <<RemoteEntry(<<"u", "p", "s", "t", "r", "e", "a", "m">>, <<"h", "t", "t", "p", "s", ":", "/", "/", "g", "i", "t", "h", "u", "b", ".", "c", "o", "m", "/", "o", "r", "i", "g", "i", "n", "/", "r", ".", "g", "i", "t">>)>>,
    <<RemoteEntry(<<"m", "y", "o", "r", "i", "g", "i", "n">>, <<"h", "t", "t", "p", "s", ":", "/", "/", "g", "i", "t", "h", "u", "b", ".", "c", "o", "m", "/", "o", "/", "o", "l", "d", ".", "g", "i", "t">>)>>,
    <<RemoteEntry(<<"o", "r", "i", "g", "i", "n">>, <<"h", "t", "t", "p", "s", ":", "/", "/", "g", "i", "t", "h", "u", "b", ".", "c", "o", "m", "/", "o", "/", "o", "l", "d", ".", "g", "i", "t">>),
      RemoteEntry(<<"u", "p", "s", "t", "r", "e", "a", "m">>, <<"h", "t", "t", "p", "s", ":", "/", "/", "g", "i", "t", "h", "u", "b", ".", "c", "o", "m", "/", "o", "/", "r", ".", "g", "i", "t">>)>>,
    <<RemoteEntry(<<"b", "a", "c", "k", "u", "p">>, <<"h", "t", "t", "p", "s", ":", "/", "/", "g", "i", "t", "h", "u", "b", ".", "c", "o", "m", "/", "o", "/", "b", ".", "g", "i", "t">>),
      RemoteEntry(<<"u", "p", "s", "t", "r", "e", "a", "m">>, <<"h", "t", "t", "p", "s", ":", "/", "/", "g", "i", "t", "h", "u", "b", ".", "c", "o", "m", "/", "o", "/", "r", ".", "g", "i", "t">>)>> }

\* the remotes of working copy w named `name`
Named(w, name) == {i \in 1..Len(w) : w[i].name = name}

\* what `git remote -v` prints: a fetch line and a push line for every remote
remote_v(w) ==
  [i \in 1..(2 * Len(w)) |->
     LET r == w[(i + 1) \div 2]
     IN  r.name \o <<"\t">> \o r.url \o (IF i % 2 = 1 THEN <<" ", "(", "f", "e", "t", "c", "h", ")">> ELSE <<" ", "(", "p", "u", "s", "h", ")">>)]

\* line 46: "origin" in result.stdout
origin_in_stdout(w) == InStr(<<"o", "r", "i", "g", "i", "n">>, join(remote_v(w), "\n"))

\* `git remote set-url origin <url>`: fails when no remote is named origin
git_remote_set_url(w, url) ==
  IF Named(w, <<"o", "r", "i", "g", "i", "n">>) = {} THEN [ok |-> FALSE, wc |-> w]
  ELSE [ok |-> TRUE,
        wc |-> [i \in 1..Len(w) |->
                  IF w[i].name = <<"o", "r", "i", "g", "i", "n">> THEN RemoteEntry(w[i].name, url) ELSE w[i]]]

\* `git remote add origin <url>`: fails when a remote is named origin already
git_remote_add(w, url) ==
  IF Named(w, <<"o", "r", "i", "g", "i", "n">>) # {} THEN [ok |-> FALSE, wc |-> w]
  ELSE [ok |-> TRUE, wc |-> Append(w, RemoteEntry(<<"o", "r", "i", "g", "i", "n">>, url))]

\* how many times the remote setup is followed in one working copy
MaxCalls == 3

\* lines 43-48, 71: check_remote_exists in a git working copy with its remotes
er_check_remote_exists ==
  /\ variant = "desktop"
  /\ pc = "idle"
  /\ Len(calls) < MaxCalls
  /\ pc' = IF origin_in_stdout(wc) THEN "er_set_url" ELSE "er_add"
  /\ UNCHANGED <<ids, fs, cache, output_text, output, deskVars, mobVars, remote, clock,
                 temp_backup, latest_backup, runs, backups, fs_at_press, gitVars, variant>>

\* one of lines 72-73, 75-76: the command, its line on success, and the
\* CalledProcessError that leaves run_git_commands through line 129 otherwise
EnsureRemoteStep(from, git, kind) ==
  /\ pc = from
  /\ LET res == git
     IN  /\ wc' = res.wc
         /\ calls' = Append(calls, [ok |-> res.ok, wc |-> res.wc])
         /\ g_output' = Append(g_output,
                          IF res.ok THEN Line(kind, Stripped.repo_link)
                          ELSE Line("Error executing Git command in ", directory))
  /\ pc' = "idle"
  /\ UNCHANGED <<ids, fs, cache, output_text, output, cur, cmds, mobVars, remote, clock,
                 temp_backup, latest_backup, runs, backups, fs_at_press, variant>>

\* lines 72-73
er_set_url ==
  EnsureRemoteStep("er_set_url", git_remote_set_url(wc, Stripped.repo_link),
                   "Successfully updated remote origin to ")

\* lines 75-76
er_add ==
  EnsureRemoteStep("er_add", git_remote_add(wc, Stripped.repo_link),
                   "Successfully added remote origin to ")

NextEnsureRemote == er_check_remote_exists \/ er_set_url \/ er_add

(* ------------------------------------------ the repository link, read *)

UrlSchemes == {<<"h", "t", "t", "p", "s", ":", "/", "/">>, <<"h", "t", "t", "p", ":", "/", "/">>, <<"f", "t", "p", ":", "/", "/">>, <<>>}
UrlHosts == {<<"g", "i", "t", "h", "u", "b", ".", "c", "o", "m">>, <<"g", "i", "t", "l", "a", "b", ".", "c", "o", "m">>}
UrlPaths == {<<"/", "o", "/", "r">>, <<"/", "o">>, <<"/", "o", "/", "r", "/", "x">>, <<"/", "/", "r">>, <<"/", "o", "/">>, <<>>}
UrlTails == {<<>>, <<"/">>, <<"/", "/">>, <<".", "g", "i", "t">>, <<".", "g", "i", "t", "/">>, <<".", "g", "i", "t", ".", "g", "i", "t">>, <<"/", ".", "g", "i", "t">>}

\* the links typed into the form
UrlInputs ==
  {s \o h \o p \o t : s \in UrlSchemes, h \in UrlHosts, p \in UrlPaths, t \in UrlTails}

\* get_repo_info, line 183: the link is validated; the ValueError ends the handler
vru_validate ==
  /\ variant = "mobile"
  /\ pc = "idle"
  /\ LET v == validate_repo_url(Stripped.repo_link)
     IN  IF v.ok
           THEN /\ output' = <<Line("validate_repo_url", v.url)>>
                /\ pc' = "gri_split"
                /\ UNCHANGED output_text
           ELSE /\ RaiseValueError("Error: Error parsing repo: ", <<"I", "n", "v", "a", "l", "i", "d", " ", "r", "e", "p", "o", " ", "U", "R", "L">>)
                /\ UNCHANGED output
  /\ UNCHANGED <<vaultVars, variant, ids, fs, cache, deskVars, mobVars>>

\* get_repo_info, lines 184-185: owner and repo are the last two segments
vru_split ==
  /\ pc = "gri_split"
  /\ LET parts == split(rstrip_slash(output[1].arg), "/")
     IN  repo_info' = [owner |-> parts[Len(parts) - 1], repo |-> parts[Len(parts)],
                       default_branch |-> <<>>]
  /\ pc' = "done"
  /\ UNCHANGED <<vaultVars, variant, ids, fs, cache, output_text, output, deskVars, entry,
                 requests, files, uploaded_files, base_sha, idx, latest_run, pulls>>

NextUrl == vru_validate \/ vru_split

(* ------------------------------------------------------ specifications *)

vars == <<variant, ids, fs, cache, pc, output_text, output, deskVars, mobVars, vaultVars>>

InitCommon ==
  /\ fs = Disk
  /\ cache = <<>>
  /\ pc = "idle"
  /\ output = <<>>
  /\ cur = 0
  /\ g_output = <<>>
  /\ cmds = <<>>
  /\ entry = ""
  /\ requests = <<>>
  /\ repo_info = [owner |-> <<>>, repo |-> <<>>, default_branch |-> <<>>]
  /\ files = <<>>
  /\ uploaded_files = <<>>
  /\ base_sha = <<>>
  /\ idx = 0
  /\ latest_run = NoRun
  /\ pulls = <<>>
  /\ clock = 0
  /\ temp_backup = <<>>
  /\ latest_backup = NoItem
  /\ backups = <<>>
  /\ fs_at_press = Disk
  /\ calls = <<>>

\* the desktop application with its form filled in
InitDesktop ==
  /\ variant = "desktop"
  /\ remote = NoRemote
  /\ ids \in [username : Usernames, email : Emails, repo_link : DesktopRepoLinks,
              commit_message : CommitMessages, local_vault_link : VaultLinks,
              onedrive_vault_link : OneDriveLinks, branch_name : {<<>>}]
  /\ output_text = <<Line("initial_message", <<>>)>>
  /\ runs = 0
  /\ wc = NoRemotes
  /\ InitCommon

\* the mobile application with its form filled in
InitMobile ==
  /\ variant = "mobile"
  /\ remote = NoRemote
  /\ ids \in [username : Usernames, email : Emails, repo_link : RepoLinks,
              commit_message : CommitMessages, local_vault_link : MobileVaultLinks,
              onedrive_vault_link : {<<>>}, branch_name : BranchNames]
  /\ output_text = <<Line("Sync your vault to GitHub!", <<>>)>>
  /\ runs = 0
  /\ wc = NoRemotes
  /\ InitCommon

\* the mobile application with the fields the backup and restore buttons read
\* filled in, facing a repository with or without a backup branch
InitVault ==
  /\ variant = "mobile"
  /\ ids \in [username : VaultTokens, email : {<<>>}, repo_link : VaultRepoLinks,
              commit_message : {<<>>}, local_vault_link : VaultPaths,
              onedrive_vault_link : {<<>>}, branch_name : {<<>>}]
  /\ remote \in Remotes
  /\ output_text = <<Line("Sync your vault to GitHub!", <<>>)>>
  /\ runs = 0
  /\ wc = NoRemotes
  /\ InitCommon

\* the desktop application's remote setup, in a working copy with remotes
InitEnsureRemote ==
  /\ variant = "desktop"
  /\ remote = NoRemote
  /\ ids \in [username : {<<"u">>}, email : {<<"e", "@", "x">>}, repo_link : EnsureRemoteLinks,
              commit_message : {<<>>}, local_vault_link : {<<"a", "/">>},
              onedrive_vault_link : {<<>>}, branch_name : {<<>>}]
  /\ output_text = <<Line("initial_message", <<>>)>>
  /\ runs = 0
  /\ wc \in WorkingCopies
  /\ InitCommon

SpecEnsureRemote == InitEnsureRemote /\ [][NextEnsureRemote]_vars

\* get_repo_info's reading of the repository link, over the links of UrlInputs
InitUrl ==
  /\ variant = "mobile"
  /\ remote = NoRemote
  /\ ids \in [username : {<<"u">>}, email : {<<>>}, repo_link : UrlInputs,
              commit_message : {<<>>}, local_vault_link : {<<>>},
              onedrive_vault_link : {<<>>}, branch_name : {<<>>}]
  /\ output_text = <<Line("Sync your vault to GitHub!", <<>>)>>
  /\ runs = 0
  /\ wc = NoRemotes
  /\ InitCommon

SpecUrl == InitUrl /\ [][NextUrl]_vars

SpecVault == InitVault /\ [][NextVault]_vars

SpecDesktop == InitDesktop /\ [][NextDesktop]_vars

SpecMobile == InitMobile /\ [][NextMobile]_vars

Init == InitDesktop \/ InitMobile

Next == NextDesktop \/ NextMobile

Spec == Init /\ [][Next]_vars

(* ------------------------------------------ validation (C1, C2) *)

\* the messages validation shows when it rejects
ValidationErrors ==
  {"Error: Username, Email, Repository Link, and Local Vault Link are required.",
   "Error: Local Vault Link and OneDrive Vault Link must be different.",
   "Error: Local Vault Link directory does not exist.",
   "Error: OneDrive Vault Link directory does not exist.",
   "Error: Fill all required fields.",
   "Error: Valid email required.",
   "Error: Folder not found."}

\* the sync button has been pressed and validation has run
Validated == pc # "idle"

\* the run ended in validation: the log is one validation message
Rejected ==
  /\ pc = "done"
  /\ Len(output_text) = 1
  /\ output_text[1].kind \in ValidationErrors

RequiredEmpty ==
  \E k \in {"username", "email", "repo_link", "local_vault_link"} : Stripped[k] = <<>>

DirsEqual ==
  /\ Stripped.onedrive_vault_link # <<>>
  /\ normpath(Stripped.local_vault_link) = normpath(Stripped.onedrive_vault_link)

EmailLacksAt == ~InStr(<<"@">>, Stripped.email)

MissingDir ==
  \/ ~isdir(fs, Stripped.local_vault_link)
  \/ Stripped.onedrive_vault_link # <<>> /\ ~isdir(fs, Stripped.onedrive_vault_link)

InvalidForm ==
  \/ variant = "desktop" /\ ValidateDesktop(Stripped, fs) # "ok"
  \/ variant = "mobile" /\ ValidateMobile(Stripped, fs) # "ok"

\* C2: when validation rejects, the run is over with nothing done: the cache
\* file is not written, no git command has run, no request has been sent, and
\* the log is exactly one validation error line.
C2_RejectionHasNoEffect ==
  (Validated /\ InvalidForm) =>
    /\ pc = "done"
    /\ cache = <<>>
    /\ cmds = <<>>
    /\ requests = <<>>
    /\ Len(output_text) = 1
    /\ output_text[1].kind \in ValidationErrors
    /\ output_text[1].arg = <<>>

\* a desktop form whose two directories are the same path has been rejected
C2_Witness ==
  /\ Validated /\ InvalidForm
  /\ variant = "desktop" /\ DirsEqual /\ ~RequiredEmpty

(* ------------------------------------- local sync steps (C3, C4) *)

\* the commands run in one directory, in the order they ran
DirCmds(d) == SelectSeq(cmds, LAMBDA c : c.dir = d)

PlainMerge == "merge origin/master --no-edit"
FallbackMerge == "merge origin/master --no-edit --allow-unrelated-histories"

\* the place of a directory's i-th command in run_git_commands' step list;
\* status, add and commit come once before the merge and once after it
StageOf(s, i) ==
  LET merged == \E j \in 1..(i - 1) : s[j].argv = PlainMerge
      a == s[i].argv
  IN  CASE a = "config user.name" -> 1
        [] a = "config user.email" -> 2
        [] a = "remote -v" -> 3
        [] a = "remote set-url origin" -> 4
        [] a = "remote add origin" -> 4
        [] a = "fetch origin" -> 5
        [] a = "status --porcelain" -> IF merged THEN 11 ELSE 6
        [] a = "add ." -> IF merged THEN 12 ELSE 7
        [] a = "commit -m" -> IF merged THEN 13 ELSE 8
        [] a = PlainMerge -> 9
        [] a = FallbackMerge -> 10
        [] a = "push origin master" -> 14

\* the steps that may directly follow a step
StageSucc(n) ==
  CASE n = 6 -> {7, 9}
    [] n = 9 -> {10, 11}
    [] n = 10 -> {11}
    [] n = 11 -> {12, 14}
    [] n = 14 -> {}
    [] OTHER -> {n + 1}

\* a step failed: its command raised; a failed plain merge is not yet a failed
\* merge step, the fallback follows
StepFailed(c) == c.exc # "" /\ c.argv # PlainMerge

\* the line a failed command leaves in the log
FailureLines(c) ==
  {Line(k, c.stderr) :
     k \in {"Error executing Git command in ", "Failed to fetch Git repository: ",
            "Failed to commit pre-merge changes: ",
            "Failed to merge with --allow-unrelated-histories: ",
            "Failed to commit after merge: ", "Failed to push to origin/master: "}}
  \cup {Line("Directory not found", c.dir)}

\* one directory's commands follow the fixed step list
StepOrder(s) ==
  /\ s # <<>> => StageOf(s, 1) = 1
  /\ \A i \in 1..(Len(s) - 1) : StageOf(s, i + 1) \in StageSucc(StageOf(s, i))
  /\ \A i \in 1..Len(s) :
       /\ s[i].argv = "remote set-url origin" => s[i - 1].ret
       /\ s[i].argv = "remote add origin" => ~s[i - 1].ret
       /\ s[i].argv = "add ." => s[i - 1].ret
       /\ s[i].argv = "commit -m" => s[i - 1].exc = ""

VaultDirs == {Stripped.local_vault_link, Stripped.onedrive_vault_link}

FilePuts ==
  SelectSeq(requests, LAMBDA r : r.url = "/repos/{owner}/{repo}/contents/{rel_path}")

\* the files the upload loop could not read
ReadErrors ==
  {i \in 1..Len(output) :
     /\ output[i].kind = "Error processing "
     /\ endswith(output[i].arg, <<":", " ", "P", "e", "r", "m", "i", "s", "s", "i", "o", "n", " ", "d", "e", "n", "i", "e", "d">>)}

FailedFilePuts == {i \in 1..Len(FilePuts) : FilePuts[i].status # 201}

\* the upload step has returned to run_commands
UploadOver == pc \in {"rc_after_upload", "done"} /\ files # <<>>

DispatchSent ==
  \E i \in 1..Len(requests) :
    requests[i].url = "/repos/{owner}/{repo}/actions/workflows/git-sync.yml/dispatches"

LinesOfKind(out, kinds) == {i \in 1..Len(out) : out[i].kind \in kinds}

\* C5: for a vault of N readable files of which exactly one file's PUT fails
\* (refused or a network error), a PUT has been sent for every one of the N
\* files in directory order, N-1 files are reported uploaded and one failed,
\* and the run is failed: it stops after the upload step, without a dispatch.
C5_OneFailedPutOthersStillSent ==
  (UploadOver /\ Cardinality(FailedFilePuts) = 1 /\ ReadErrors = {}) =>
    /\ Len(FilePuts) = NFiles
    /\ \A i \in 1..NFiles : FilePuts[i].arg = files[i]
    /\ Cardinality(LinesOfKind(output, {"Uploaded: "})) = NFiles - 1
    /\ Cardinality(LinesOfKind(output, {"Error uploading ", "Error processing "})) = 1
    /\ Cardinality({i \in 1..Len(uploaded_files) :
                      \E j \in 1..NFiles : uploaded_files[i] = files[j]}) = NFiles - 1
    /\ ~DispatchSent
    /\ pc = "done" =>
         /\ LinesOfKind(output_text, {"Error uploading ", "Error processing "}) # {}
         /\ LinesOfKind(output_text, {"Running workflow..."}) = {}

\* of three files the first one's PUT failed, the other two were uploaded, and
\* the run is over
C5_Witness ==
  /\ pc = "done"
  /\ Len(FilePuts) = 3
  /\ NFiles = 3
  /\ FailedFilePuts = {1}
  /\ Len(uploaded_files) >= 2

\* the upload loop went through every file
UploadLoopCompleted ==
  UploadOver /\ Len(FilePuts) + Cardinality(ReadErrors) = NFiles

\* no upload failed: every upload PUT, the README's included, was answered
\* 201 and every file could be read
NoUploadFailed ==
  /\ ReadErrors = {}
  /\ FailedFilePuts = {}
  /\ \A i \in 1..Len(requests) :
       requests[i].url = "/repos/{owner}/{repo}/contents/README.md"
         => requests[i].status = 201

\* C6 as the specification states it: once the upload loop has gone through the
\* vault, the workflow is dispatched exactly when at least one file was
\* uploaded and no upload failed, whatever the files are named.
C6_AsStated ==
  (pc = "done" /\ UploadLoopCompleted) =>
    (DispatchSent <=> (\E i \in 1..Len(FilePuts) : FilePuts[i].status = 201)
                        /\ NoUploadFailed)

(* --------------------------------------------- workflow polling (C7, C8) *)

\* the status requests of the polling loop
Polls == SelectSeq(requests, LAMBDA r : r.url = "/repos/{owner}/{repo}/actions/runs")

\* C7: after a dispatch at most 12 status requests are sent; the loop stops at
\* the first one that shows a completed run, and none is sent after it; every
\* turn of the loop either leaves it or uses up one of the 12 attempts, so the
\* loop ends whatever the remote answers.
C7_PollingBounded ==
  /\ [](/\ Len(Polls) <= 12
        /\ pc = "wf_poll" => idx = Len(Polls)
        /\ latest_run # NoRun =>
             /\ latest_run.status = "completed"
             /\ Polls # <<>> /\ Polls[Len(Polls)].status = 200)
  /\ [][/\ latest_run # NoRun => Polls' = Polls
        /\ pc = "wf_poll" => (pc' # "wf_poll" \/ Len(Polls') = Len(Polls) + 1)]_vars

\* the third status request showed a completed run and the run went on to its
\* end
C7_Witness ==
  /\ pc = "done"
  /\ latest_run # NoRun
  /\ Len(Polls) = 3

\* all 12 status requests were answered and none showed a completed run
PollsRanOut ==
  /\ Len(Polls) = 12
  /\ \A i \in 1..12 : Polls[i].status = 200
  /\ latest_run = NoRun
  /\ pc # "wf_poll"

WorkflowErrorKinds ==
  {"Network error in workflow: ", "Error triggering workflow: ",
   "Error checking workflow status: ", "Workflow failed: conclusion",
   "Workflow failed: job "}

\* C8: when none of the 12 status requests shows a completed run, the workflow
\* step ends with the line 'Workflow timed out' and no error line, and the run
\* goes on to the pull-request step.
C8_TimeoutIsNotAnError ==
  PollsRanOut =>
    /\ LinesOfKind(output_text \o output, {"Workflow timed out"}) # {}
    /\ LinesOfKind(output_text \o output, WorkflowErrorKinds) = {}
    /\ pc = "rc_after_workflow" =>
         output = <<Line("Triggered workflow", <<>>), Line("Workflow timed out", <<>>)>>
    /\ pc = "done" =>
         \E i \in 1..Len(requests) :
           /\ requests[i].url = "/repos/{owner}/{repo}/pulls"
           /\ \A j \in 1..Len(requests) :
                requests[j].url = "/repos/{owner}/{repo}/actions/runs" => j < i

\* the polls ran out and the run finished
C8_Witness == pc = "done" /\ PollsRanOut

(* --------------------------------------- backup and restore (C9, C10) *)

\* the backup naming pattern: backup_<timestamp>.zip
IsBackupName(name) == startswith(name, <<"b", "a", "c", "k", "u", "p", "_">>) /\ endswith(name, <<".", "z", "i", "p">>)

\* the backup artifacts at the head of the backup branch
BackupArtifacts == {x \in remote.backup : IsBackupName(x.name)}

\* C9 as the specification states it: at most one backup artifact is ever kept
\* on the current backup branch, and after two successful backups it is the
\* later one, the earlier one being kept on a 'previous' backup branch.
C9_AsStated ==
  /\ Cardinality(BackupArtifacts) <= 1
  /\ Len(backups) >= 2 =>
       /\ \A x \in BackupArtifacts : x.name = backups[Len(backups)]
       /\ \E b \in remote.refs : b # "backup"

\* C9: there is one backup branch, 'backup', and no 'previous' one; every
\* successful remote backup adds one artifact named after its upload time and
\* removes none, so after two consecutive successful backups both artifacts
\* are at the head of that branch, under distinct names, the later one the
\* greater.
C9_BackupsAccumulateOnOneBranch ==
  /\ [](/\ remote.refs \subseteq {"backup"}
        /\ \A i \in 1..Len(backups) : \E x \in BackupArtifacts : x.name = backups[i]
        /\ \A i \in 1..Len(backups) : \A j \in 1..Len(backups) :
             i < j => StrLess(backups[i], backups[j])
        /\ Cardinality(BackupArtifacts) >= Len(backups))
  /\ [][remote.backup \subseteq remote'.backup]_vars

\* two backups have been uploaded and both are on the branch
C9_Witness ==
  /\ pc = "done"
  /\ Len(backups) = 2
  /\ Cardinality(BackupArtifacts) = 2

\* the restore handler has reported a restored vault
Restored ==
  /\ pc = "done"
  /\ entry = "restore_remote"
  /\ output_text # <<>>
  /\ output_text[Len(output_text)].kind = "Restored vault from "

\* C10 as the specification states it: a successful restore from a branch that
\* holds backup artifacts has picked, among the entries that match the backup
\* naming pattern, the one with the greatest name, and the vault directory
\* holds exactly that artifact's members.
C10_AsStated ==
  (Restored /\ BackupArtifacts # {}) =>
    /\ latest_backup \in BackupArtifacts
    /\ \A x \in BackupArtifacts : ~StrLess(latest_backup.name, x.name)
    /\ fs[normpath(vault_path)] = latest_backup.content.entries

(* ------------------------------------------ restore failures (C11, C12) *)

\* the restore handler has run to its end
RestoreOver == pc = "done" /\ entry = "restore_remote"

\* the lines by which a handler reports a failure
ErrorKinds ==
  {"Error: Vault, PAT, and repo URL required.",
   "Error: Vault folder, PAT, and repo URL are required.",
   "Error: Error parsing repo: ", "Error: Network error: ",
   "Error: Vault not found", "Error getting ref: ", "Error creating backup branch: ",
   "Error uploading backup: ", "Remote backup error: ",
   "Error accessing backup branch: ", "Error: No backups found in backup branch",
   "Error downloading backup: ", "Restore error: ", "Network error: "}

\* C11 as the specification states it: a restore that fails, at whatever step,
\* leaves the vault directory with the contents it had when the restore
\* started.
C11_AsStated ==
  (RestoreOver /\ ~Restored) => fs = fs_at_press

\* C12 as the specification states it: a restore from a backup branch that
\* holds no backup artifact ends with an error line and leaves the disk as it
\* was.
C12_AsStated ==
  (RestoreOver /\ BackupArtifacts = {}) =>
    /\ output_text # <<>>
    /\ output_text[Len(output_text)].kind \in ErrorKinds
    /\ fs = fs_at_press

(* ------------------------------------------- branches made from a ref *)

RefUrl == "/repos/{owner}/{repo}/git/ref/heads/"

IsCreateRef(r) == r.method = "POST" /\ r.url = "/repos/{owner}/{repo}/git/refs"

\* the lookup of a branch that is to exist: the sync's target, the backup branch
IsTargetLookup(r) ==
  /\ r.method = "GET"
  /\ r.url \in {RefUrl, "/repos/{owner}/{repo}/git/ref/heads/backup"}

\* the i-th request of the run is the lookup of the default branch's ref: the
\* one sent when the lookup of the branch that is to exist did not find it
IsBaseLookup(i) ==
  /\ i > 1
  /\ requests[i].method = "GET"
  /\ requests[i].url = RefUrl
  /\ IsTargetLookup(requests[i - 1])
  /\ requests[i - 1].status = 404

\* every request that creates a ref directly follows a lookup of the default
\* branch's ref answered 200 and carries the commit id that lookup returned
CreateRefFromBase ==
  \A i \in 1..Len(requests) :
    IsCreateRef(requests[i]) =>
      /\ IsBaseLookup(i - 1)
      /\ requests[i - 1].status = 200
      /\ requests[i - 1].arg = repo_info.default_branch
      /\ requests[i].body[2] = <<"sha", <<"s", "h", "a", "-">> \o requests[i - 1].arg>>

\* a failed lookup of the default branch's ref is the last request of its run
FailedBaseLookupEndsRun ==
  \A i \in 1..Len(requests) :
    (IsBaseLookup(i) /\ requests[i].status # 200) => i = Len(requests)

\* C13 as the specification states it: every request that creates a ref, for
\* the sync's target branch or for the backup branch, carries the commit id
\* returned by a successful lookup of the default branch's ref in the same
\* run, and after a failed lookup no request creates a ref and the run stops
C13_AsStated == CreateRefFromBase /\ FailedBaseLookupEndsRun

(* ------------------------------------------------ order of the requests *)

\* a request that writes a file of the vault, or the README, to the target branch
IsContentPut(r) ==
  /\ r.method = "PUT"
  /\ r.url \in {"/repos/{owner}/{repo}/contents/README.md",
                "/repos/{owner}/{repo}/contents/{rel_path}"}
  /\ r.body[2] = <<"branch", branch_name>>

\* the target branch's ref was found, or the branch was created, by request j
TargetBranchReady(j) ==
  \/ /\ requests[j].method = "GET"
     /\ requests[j].url = RefUrl
     /\ requests[j].arg = branch_name
     /\ requests[j].status = 200
  \/ IsCreateRef(requests[j]) /\ requests[j].status = 201

IsPoll(r) == r.method = "GET" /\ r.url = "/repos/{owner}/{repo}/actions/runs"

IsDispatch(r) ==
  /\ r.method = "POST"
  /\ r.url = "/repos/{owner}/{repo}/actions/workflows/git-sync.yml/dispatches"

\* every content PUT is sent after the target branch's ref was found or created
PutsAfterBranchReady ==
  \A i \in 1..Len(requests) :
    IsContentPut(requests[i]) => \E j \in 1..(i - 1) : TargetBranchReady(j)

\* every status poll is sent after the dispatch was accepted
PollsAfterDispatch ==
  \A i \in 1..Len(requests) :
    IsPoll(requests[i]) =>
      \E j \in 1..(i - 1) : IsDispatch(requests[j]) /\ requests[j].status = 204

\* C14 as the specification states it: within a sync run no content PUT
\* addressed to the target branch is sent before the branch's ref was found or
\* the branch was created, and no status poll is sent before the dispatch was
\* accepted
C14_AsStated == PutsAfterBranchReady /\ PollsAfterDispatch

(* ------------------------------------------------ the remote named origin *)

\* after call k of the remote setup the working copy has exactly one remote
\* named origin, and it points at the link
OriginSetAfter(k) ==
  LET w == calls[k].wc
  IN  /\ Cardinality(Named(w, <<"o", "r", "i", "g", "i", "n">>)) = 1
      /\ \A i \in Named(w, <<"o", "r", "i", "g", "i", "n">>) : w[i].url = Stripped.repo_link

\* the second call with the same link succeeds and leaves what the first left
SecondCallSettled ==
  /\ calls[2].ok
  /\ calls[2].wc = calls[1].wc
  /\ OriginSetAfter(2)

\* C15 as the specification states it: after the remote setup was called twice
\* with the same URL the working copy has exactly one remote named origin
\* pointing at that URL, the same state as after one call, and the second call
\* did not fail
C15_AsStated == Len(calls) >= 2 => SecondCallSettled

\* the same, for the working copies in which the first call succeeded
SecondCallSettledAfterSuccess == (Len(calls) >= 2 /\ calls[1].ok) => SecondCallSettled

(* ------------------------------------------- the bootstrap of main *)

IsBranchCheck(r) == r.method = "GET" /\ r.url = "/repos/{owner}/{repo}/branches/main"

IsInitPut(r) == r.method = "PUT" /\ r.url = "/repos/{owner}/{repo}/contents/.init"

IsSetDefault(r) == r.method = "PATCH" /\ r.url = "/repos/{owner}/{repo}"

\* how many requests of the run satisfy P
Count(P(_)) == Cardinality({i \in 1..Len(requests) : P(requests[i])})

AllSlashes(s) == \A i \in 1..Len(s) : s[i] = "/"

\* the link was accepted and has been split
LinkAccepted == pc = "done" /\ output # <<>>

\* the link was refused
LinkRefused == pc = "done" /\ output = <<>>

\* url is the link with its surrounding blanks, its trailing slashes and one
\* trailing ".git" taken off
NormalisedFrom(link, url) ==
  LET s == strip(link)
      rest == SubSeq(s, Len(url) + 1, Len(s))
  IN  /\ startswith(s, url)
      /\ \/ AllSlashes(rest) /\ ~endswith(url, <<".", "g", "i", "t">>)
         \/ startswith(rest, <<".", "g", "i", "t">>) /\ AllSlashes(SubSeq(rest, 5, Len(rest)))

\* u has the shape scheme://host/owner/repo: five pieces between slashes, the
\* second empty, the others not
HasShape(u, schemes, hosts) ==
  LET parts == split(u, "/")
  IN  /\ Len(parts) = 5
      /\ parts[1] \in schemes
      /\ parts[2] = <<>>
      /\ parts[3] \in hosts
      /\ parts[4] # <<>>
      /\ parts[5] # <<>>

\* what line 72-74 make of the link, computed apart from validate_repo_url
Normalised(link) ==
  LET s1 == strip(link)
      n == CHOOSE k \in 0..Len(s1) :
             /\ AllSlashes(SubSeq(s1, k + 1, Len(s1)))
             /\ k > 0 => s1[k] # "/"
      s2 == SubSeq(s1, 1, n)
  IN  IF endswith(s2, <<".", "g", "i", "t">>) THEN SubSeq(s2, 1, Len(s2) - 4) ELSE s2

\* C17 as the specification states it: the links accepted are exactly those
\* that, normalised, have the shape scheme://host/owner/repo, whatever the
\* scheme and the host
C17_AsStated ==
  pc = "done" =>
    (LinkAccepted <=>
       HasShape(Normalised(ids.repo_link),
                {<<"h", "t", "t", "p", "s", ":">>, <<"h", "t", "t", "p", ":">>, <<"f", "t", "p", ":">>}, UrlHosts))

\* C17: the link returned is the link typed with its trailing slashes and one
\* trailing ".git" taken off; a link is accepted exactly when, so normalised,
\* it reads http://github.com/owner/repo or https://github.com/owner/repo with
\* owner and repo not empty and nothing after them; owner and repo are then
\* those two segments
C17_AcceptsGithubOwnerRepo ==
  pc = "done" =>
    /\ LinkAccepted <=>
         HasShape(Normalised(ids.repo_link), {<<"h", "t", "t", "p", "s", ":">>, <<"h", "t", "t", "p", ":">>}, {<<"g", "i", "t", "h", "u", "b", ".", "c", "o", "m">>})
    /\ LinkAccepted =>
         /\ output[1].arg = Normalised(ids.repo_link)
         /\ NormalisedFrom(ids.repo_link, output[1].arg)
         /\ split(output[1].arg, "/")[4] = repo_info.owner
         /\ split(output[1].arg, "/")[5] = repo_info.repo
    /\ LinkRefused =>
         output_text = <<Line("Error: Error parsing repo: ", <<"I", "n", "v", "a", "l", "i", "d", " ", "r", "e", "p", "o", " ", "U", "R", "L">>)>>

\* a link with a trailing ".git" and a trailing slash, accepted without them
C17_Witness ==
  /\ LinkAccepted
  /\ endswith(ids.repo_link, <<".", "g", "i", "t", "/">>)
  /\ repo_info.repo = <<"r">>


(* ------------------------------------------- failures become log lines *)

\* the kinds of line that report a network failure
NetworkKinds ==
  {"Error: Network error: ", "Network error: ", "Network error in workflow: ",
   "Network error merging PRs: "}

\* a request of the run met a network failure
NetworkFailed == \E i \in 1..Len(requests) : requests[i].status = 0

\* the log of the run holds a line that reports a network failure
NetworkReported == \E i \in 1..Len(output_text) : output_text[i].kind \in NetworkKinds

\* a run of one of the buttons is over
RunOver == pc = "done" /\ entry # ""

\* C18 as the specification states it: when a run of an entry point is over,
\* every failure has become a line of its log, and a network failure is
\* reported by a line of the network kind, which no API-level rejection gets
C18_AsStated == RunOver => (NetworkFailed <=> NetworkReported)

\* the same, for the backup and restore buttons
NetworkKindKeptByBackupAndRestore ==
  (RunOver /\ entry # "fetch_branches") => (NetworkFailed <=> NetworkReported)

(* ------------------------------------------------ the log of one run *)

\* s is a leading part of t
IsPrefix(s, t) == Len(s) <= Len(t) /\ SubSeq(t, 1, Len(s)) = s

\* C19 as the specification states it: every step of a run leaves the lines
\* the run's log already holds in place, and only adds lines after them
C19_AsStated == [][pc # "idle" => IsPrefix(output_text, output_text')]_vars

\* the same, for the steps after the repository was resolved
LogAppendOnlyOnceResolved ==
  [][pc \notin {"idle", "get_repo_info", "gri_branch_check", "gri_create_file",
                "gri_update_repo"} => IsPrefix(output_text, output_text')]_vars

(* --------------------------------------- a vault path that is no directory *)

\* the run's requests that change the repository
MutatingRequests == {i \in 1..Len(requests) : requests[i].method # "GET"}

\* the vault path named no directory when the button was pressed
NoVaultAtPress == ~isdir(fs_at_press, vault_path)

\* C20 as the specification states it: a backup or a restore whose vault path
\* names no existing directory ends with an error line, has sent no request
\* that changes the repository, and leaves the disk as it was
C20_AsStated ==
  (RunOver /\ entry \in {"remote_backup", "restore_remote"} /\ NoVaultAtPress) =>
    /\ output_text # <<>>
    /\ output_text[Len(output_text)].kind \in ErrorKinds
    /\ MutatingRequests = {}
    /\ fs = fs_at_press

\* the part that holds: a backup of a path that is no directory writes nothing
\* to disk, uploads nothing and ends with an error line
BackupOfNoVaultUploadsNothing ==
  (RunOver /\ entry = "remote_backup" /\ NoVaultAtPress) =>
    /\ output_text[Len(output_text)].kind \in ErrorKinds
    /\ fs = fs_at_press
    /\ \A i \in MutatingRequests : IsInitPut(requests[i]) \/ IsSetDefault(requests[i])

(* ------------------------------------------- a failed archive of the vault *)

\* archiving the vault failed in the running backup: create_zip returned one
\* of its two failure lines
ArchiveFailed ==
  /\ entry = "remote_backup"
  /\ output # <<>>
  /\ output[1].kind \in {"Error: Vault not found", "Zip creation failed: "}

IsBackupPut(r) ==
  r.method = "PUT" /\ r.url = "/repos/{owner}/{repo}/contents/backup_{timestamp}.zip"

\* C21 as the specification states it: once archiving the vault has failed the
\* backup sends no upload of an archive and no creation of the backup branch,
\* and when it is over no file is left at the temporary archive path
C21_AsStated ==
  ArchiveFailed =>
    /\ \A i \in 1..Len(requests) : ~IsBackupPut(requests[i]) /\ ~IsCreateRef(requests[i])
    /\ pc = "done" => temp_backup = <<>>

\* the part that holds: a vault path that is no directory stops the backup
\* before any request of remote_backup_vault
MissingVaultStopsBackup ==
  (entry = "remote_backup" /\ output # <<>> /\ output[1].kind = "Error: Vault not found") =>
    /\ \A i \in 1..Len(requests) : ~IsBackupPut(requests[i]) /\ ~IsCreateRef(requests[i])
    /\ pc \in {"rb_return", "done"}

(* ------------------------------------------------ the auto-merge step *)

IsPullsList(r) == r.method = "GET" /\ r.url = "/repos/{owner}/{repo}/pulls"

IsMerge(r) == r.method = "PUT" /\ r.url = "/repos/{owner}/{repo}/pulls/{pr_number}/merge"

\* the merge attempts of the run, in the order sent
Merges == SelectSeq(requests, IsMerge)

\* the pull request a merge attempt is for
MergeNumber(r) == r.body[2][2][1]

\* the line that reports the outcome of a merge attempt
MergeLine(r) ==
  IF r.status = 200 THEN Line("Merged PR #", <<MergeNumber(r)>>)
  ELSE IF r.status = 0 THEN Line("Network error merging PRs: ", NetErrText)
  ELSE Line("Error merging PR #", <<MergeNumber(r)>>)

\* the lines of the log from its first line about pull requests on
MergeLog ==
  SelectSeq(output_text,
            LAMBDA l : l.kind \in {"Merged PR #", "Error merging PR #",
                                   "Network error merging PRs: ", "Error fetching PRs: "})

\* the sync run reached the workflow step and is over
WorkflowRunOver == pc = "done" /\ entry = "run_commands" /\ DispatchSent

\* the open pull requests were listed
PullsListed == \E i \in 1..Len(requests) : IsPullsList(requests[i]) /\ requests[i].status = 200

\* after the dispatch the pull requests are listed, once, whatever the workflow
\* step reported
MergeFollowsWorkflow ==
  \E i, j \in 1..Len(requests) :
    /\ i < j
    /\ IsDispatch(requests[i])
    /\ IsPullsList(requests[j])
    /\ \A k \in 1..Len(requests) : IsPullsList(requests[k]) => k = j
    /\ \A k \in 1..Len(requests) : IsMerge(requests[k]) => k > j

\* every merge attempt is reported by its line, in the order of the attempts
AttemptsLogged ==
  PullsListed => MergeLog = [k \in 1..Len(Merges) |-> MergeLine(Merges[k])]

IsFilePut(r) == r.method = "PUT" /\ r.url = "/repos/{owner}/{repo}/contents/{rel_path}"

\* a request of the steps that follow the strict checks
IsLaterStep(r) == IsFilePut(r) \/ IsDispatch(r) \/ IsPoll(r) \/ IsMerge(r)

\* resolving the repository failed, or the vault holds no file
ResolutionOrTreeFailed ==
  /\ entry = "run_commands"
  /\ \E i \in 1..Len(output_text) :
       output_text[i].kind \in {"Error: Error parsing repo: ", "Error: Network error: ",
                                "No files in "}

\* request i is a lookup of a branch's ref that failed: the target's or the
\* default branch's lookup met a network failure, or the default branch's ref
\* was not found
RefLookupFailed(i) ==
  /\ requests[i].method = "GET"
  /\ requests[i].url = RefUrl
  /\ \/ requests[i].status = 0
     \/ IsBaseLookup(i) /\ requests[i].status # 200

\* C23 as the specification states it: once the repository failed to resolve,
\* the vault was found empty or a lookup of a branch's ref failed, the sync
\* sends no file PUT, no dispatch, no status poll and no merge request
C23_AsStated ==
  /\ ResolutionOrTreeFailed => \A i \in 1..Len(requests) : ~IsLaterStep(requests[i])
  /\ \A i \in 1..Len(requests) :
       RefLookupFailed(i) => \A j \in (i + 1)..Len(requests) : ~IsLaterStep(requests[j])

\* the part that holds: the same, for the lookups that were answered (not
\* found) rather than cut off by the network, and no file PUT follows any
\* failed lookup
AnsweredStrictFailuresStop ==
  /\ ResolutionOrTreeFailed => \A i \in 1..Len(requests) : ~IsLaterStep(requests[i])
  /\ \A i \in 1..Len(requests) :
       RefLookupFailed(i) =>
         \A j \in (i + 1)..Len(requests) :
           /\ ~IsFilePut(requests[j])
           /\ requests[i].status # 0 => ~IsLaterStep(requests[j])

(* ------------------------------------------------ no target branch named *)

\* the branch a request that writes a file of the sync is addressed to
UploadTargets ==
  {requests[i].body[2][2] :
     i \in {k \in 1..Len(requests) :
              /\ requests[k].method = "PUT"
              /\ requests[k].url \in {"/repos/{owner}/{repo}/contents/README.md",
                                      "/repos/{owner}/{repo}/contents/{rel_path}"}}}

\* C24 as the specification states it: a sync with the branch field left empty
\* uploads to the branch the repository designates as its default, whatever
\* that branch is named
C24_AsStated ==
  (entry = "run_commands" /\ Stripped.branch_name = <<>>) =>
    UploadTargets \subseteq {repo_info.default_branch}

\* what the code does: with the branch field left empty every upload goes to
\* main
EmptyBranchUploadsToMain ==
  (entry = "run_commands" /\ Stripped.branch_name = <<>>) => UploadTargets \subseteq {<<"m", "a", "i", "n">>}

(* ------------------------------------------------ the run that succeeds *)

\* the sync is over; the target branch was found and no ref was created, a PUT
\* was sent for every file of the vault and accepted, the dispatch was
\* accepted and the one poll sent showed a completed, successful run
CleanRun ==
  /\ pc = "done"
  /\ entry = "run_commands"
  /\ \E i \in 1..Len(requests) : TargetBranchReady(i) /\ requests[i].method = "GET"
  /\ \A i \in 1..Len(requests) : ~IsCreateRef(requests[i])
  /\ Len(FilePuts) = NFiles
  /\ \A i \in 1..Len(FilePuts) : FilePuts[i].status = 201
  /\ \E i \in 1..Len(requests) : IsDispatch(requests[i]) /\ requests[i].status = 204
  /\ Len(Polls) = 1
  /\ Polls[1].status = 200
  /\ latest_run.status = "completed"
  /\ latest_run.conclusion = "success"

\* the lines that report progress or success
ProgressKinds ==
  {"Starting sync...", "Validated repo: ", "Found file(s): ", "Settings saved.",
   "Uploading files...", "Uploaded README.md", "Branch exists, updating: ", "Uploaded: ",
   "Running workflow...", "Triggered workflow", "Workflow completed successfully",
   "Merged PR #"}

SuccessKinds == {"Workflow completed successfully", "Merged PR #"}

LastLine == output_text[Len(output_text)]

\* the pull requests were listed and every merge attempt merged
MergesClean == PullsListed /\ \A k \in 1..Len(Merges) : Merges[k].status = 200

IsStatus(c) == c.argv = "status --porcelain"

NoChangesKinds ==
  {"No local changes to commit before merge", "No changes to commit after merge"}

\* the status queries that found nothing to commit
CleanStatuses == {i \in 1..Len(cmds) : IsStatus(cmds[i]) /\ ~cmds[i].ret}

\* C26: when the status query finds no pending change, no stage or commit
\* command is run for it: the directory's next command is the merge (before
\* it) or the push (after it); the 'no changes' line is logged at once, the
\* run goes on with that next step, and the finished log holds one such line
\* for every query that found nothing
C26_NothingToCommitIsNoOp ==
  /\ \A i \in CleanStatuses :
       IF i = Len(cmds)
         THEN pc \in {"g_merge", "g_push"} /\ g_output[Len(g_output)].kind \in NoChangesKinds
         ELSE /\ cmds[i + 1].argv \in {PlainMerge, "push origin master"}
              /\ cmds[i + 1].dir = cmds[i].dir
  /\ \A i \in 1..Len(cmds) :
       cmds[i].argv = "add ." => i > 1 /\ IsStatus(cmds[i - 1]) /\ cmds[i - 1].ret
  /\ \A i \in 1..Len(cmds) :
       cmds[i].argv = "commit -m" => i > 1 /\ cmds[i - 1].argv = "add ."
  /\ pc = "done" =>
       Cardinality(LinesOfKind(output_text, NoChangesKinds)) = Cardinality(CleanStatuses)

\* a directory with nothing to commit before or after the merge, pushed
C26_Witness ==
  /\ pc = "done"
  /\ Cardinality(CleanStatuses) = 2
  /\ \A i \in 1..Len(cmds) : cmds[i].argv \notin {"add .", "commit -m"}
  /\ \E i \in 1..Len(cmds) : cmds[i].argv = "push origin master" /\ cmds[i].exc = ""
  /\ LinesOfKind(output_text, {"Git operations completed successfully in "}) # {}

(* ------------------------------------------------ the branch listing *)

IsBranchList(r) == r.method = "GET" /\ r.url = "/repos/{owner}/{repo}/branches"

\* the Fetch Branches run is over and its listing request was sent
ListingOver ==
  /\ pc = "done"
  /\ entry = "fetch_branches"
  /\ requests # <<>>
  /\ IsBranchList(requests[Len(requests)])

\* C27: a listing that is refused or meets a network failure gives the empty
\* list: nothing is raised, the handler shows 'No branches found or error
\* fetching branches.'; a listing that succeeds gives the names in the order
\* the remote listed them, which the handler shows joined in that order
C27_ListBranchesFailsSoft ==
  ListingOver =>
    LET r == requests[Len(requests)]
    IN  /\ Len(output_text) = 1
        /\ r.status # 200 =>
             output_text[1] = Line("No branches found or error fetching branches.", <<>>)
        /\ r.status = 200 =>
             /\ output_text[1].kind = "Available branches: "
             /\ split(output_text[1].arg, ",") =
                  [k \in 1..Len(BranchList) |->
                     (IF k = 1 THEN <<>> ELSE <<" ">>) \o BranchList[k]]

\* the listing of a repository with a backup branch, shown with both names
C27_Witness ==
  /\ ListingOver
  /\ requests[Len(requests)].status = 200
  /\ Len(BranchList) = 2
  /\ output_text[1].arg = repo_info.default_branch \o <<",", " ", "b", "a", "c", "k", "u", "p">>

(* ------------------------------------------------ the push *)

IsPush(c) == c.argv = "push origin master"

\* command i was preceded, in its directory, by a command of `argvs` that succeeded
SucceededBefore(i, argvs) ==
  \E j \in 1..(i - 1) :
    cmds[j].dir = cmds[i].dir /\ cmds[j].argv \in argvs /\ cmds[j].exc = ""

\* the directories reported done in log `out`
ReportedDone(out) ==
  {out[i].arg : i \in LinesOfKind(out, {"Git operations completed successfully in "})}

\* the directories whose push succeeded
Pushed == {cmds[i].dir : i \in {k \in 1..Len(cmds) : IsPush(cmds[k]) /\ cmds[k].exc = ""}}

\* C28: a push is run for a directory only after that directory's fetch
\* succeeded and its plain merge or its merge with unrelated histories
\* succeeded; the log of a finished run reports 'Git operations completed
\* successfully' for exactly the directories whose push succeeded, and no log
\* reports it for any other directory while the run is going on
C28_PushOnlyAfterFetchAndMerge ==
  /\ \A i \in 1..Len(cmds) :
       IsPush(cmds[i]) =>
         /\ SucceededBefore(i, {"fetch origin"})
         /\ SucceededBefore(i, {PlainMerge, FallbackMerge})
  /\ ReportedDone(g_output) \cup ReportedDone(output) \cup ReportedDone(output_text)
       \subseteq Pushed
  /\ pc = "done" => ReportedDone(output_text) = Pushed

\* a directory pushed after its plain merge failed and the fallback succeeded
C28_Witness ==
  /\ pc = "done"
  /\ Pushed # {}
  /\ \E i, j \in 1..Len(cmds) :
       /\ cmds[i].argv = PlainMerge /\ cmds[i].exc # ""
       /\ cmds[j].argv = FallbackMerge /\ cmds[j].exc = ""
       /\ cmds[i].dir = cmds[j].dir /\ cmds[i].dir \in Pushed

(* ------------------------------------------------ whose run was polled *)

\* the polling step reported a completed run
CompletionReported ==
  \E out \in {output, output_text} :
    LinesOfKind(out, {"Workflow completed successfully", "Workflow failed: conclusion"}) # {}

\* C29 as the specification states it: the completed run the polling step
\* reports is the run this invocation's dispatch started (id 2), never a run
\* of the branch that had completed before the dispatch (id 1)
C29_AsStated == CompletionReported => latest_run.id = 2

(* ------------------------------------------------ Fetch Branches reads *)

\* C30 as the specification states it: a run of Fetch Branches sends no
\* request that creates a file, creates a ref or changes the default branch
C30_AsStated ==
  entry = "fetch_branches" =>
    \A i \in 1..Len(requests) :
      /\ requests[i].method = "GET"
      /\ ~IsInitPut(requests[i])
      /\ ~IsCreateRef(requests[i])
      /\ ~IsSetDefault(requests[i])

\* the part that holds: against a repository that has a branch main, every
\* request of Fetch Branches is a GET
FetchReadsWhenMainExists ==
  (entry = "fetch_branches"
     /\ \E i \in 1..Len(requests) : IsBranchCheck(requests[i]) /\ requests[i].status = 200) =>
    \A i \in 1..Len(requests) : requests[i].method = "GET"

\* ---- C31 ----

\* the requests by which a backup may change the repository under the claim:
\* the creation of the backup ref and the upload of the archive to it
IsBackupWrite(r) ==
  \/ IsCreateRef(r) /\ r.arg = <<"b", "a", "c", "k", "u", "p">>
  \/ IsBackupPut(r)

\* C31 as the specification states it: every request of a remote backup that
\* changes the repository creates the backup ref or adds the archive file to the
\* backup branch; the backup sends no merge of a pull request and no write to
\* a content branch
C31_AsStated ==
  entry = "remote_backup" =>
    \A i \in MutatingRequests : IsBackupWrite(requests[i])

\* the part of C31 that holds: a backup's writes are the two writes to the
\* backup branch, the merges of the open pull requests that follow a successful
\* upload, and get_repo_info's bootstrap of main
C31_BackupWrites ==
  entry = "remote_backup" =>
    \A i \in MutatingRequests :
      \/ IsBackupWrite(requests[i])
      \/ IsMerge(requests[i])
      \/ IsInitPut(requests[i])
      \/ IsSetDefault(requests[i])

\* a backup has uploaded its archive and then merged a pull request
C31_MergedAfterUpload ==
  /\ entry = "remote_backup"
  /\ \E i, j \in 1..Len(requests) :
       /\ i < j
       /\ IsBackupPut(requests[i]) /\ requests[i].status = 201
       /\ IsMerge(requests[j]) /\ requests[j].status = 200

\* ---- C32 ----

\* the files of a directory, as the set of their relative paths and contents
DirFiles(disk, dir) ==
  {disk[normpath(dir)][i] : i \in 1..Len(disk[normpath(dir)])}

\* the restore that is over restored an artifact that a backup of this
\* behaviour uploaded, and the artifact is the archive create_zip makes of the
\* vault directory as it stood when the restore began: no file of the directory
\* changed between that backup and this restore
RestoredOwnBackup ==
  /\ Restored
  /\ \E i \in 1..Len(backups) : backups[i] = latest_backup.name
  /\ isdir(fs_at_press, vault_path)
  /\ latest_backup.content = create_zip(fs_at_press, vault_path)

\* C32 as the specification states it: after a successful backup of the vault
\* directory and a successful restore of that artifact into the same directory,
\* the directory holds the relative paths and contents it held before
C32_AsStated ==
  RestoredOwnBackup =>
    DirFiles(fs, vault_path) = DirFiles(fs_at_press, vault_path)

\* the part of C32 that holds: every file the directory held is restored with
\* its contents, below the archive's root label and not at its own path
C32_RestoredBelowRootLabel ==
  RestoredOwnBackup =>
    DirFiles(fs, vault_path) =
      {File(<<"O", "b", "s", "i", "d", "i", "a", "n", "-", "V", "a", "u", "l", "t", "/">> \o f.path, f.content) : f \in DirFiles(fs_at_press, vault_path)}

\* a backup of a vault that holds a file has been restored into the vault
C32_RoundTripRun ==
  /\ RestoredOwnBackup
  /\ DirFiles(fs_at_press, vault_path) # {}

\* ---- C33 ----

\* the fields of a request's JSON body that hold text, as <<key, value>>; the
\* number of a pull request is no text
TextFields(r) == {r.body[k] : k \in {k \in 1..Len(r.body) : r.body[k][1] # "number"}}

\* the token is the value of a field of the request's body
TokenInBody(r) == \E f \in TextFields(r) : f[2] = token

\* the token is the part of the request's URL that the run fills in
TokenInUrl(r) == r.arg = token

\* C33 as the specification states it: no request of a run carries the token in
\* its body, in a workflow input or in its URL
C33_AsStated ==
  \A i \in 1..Len(requests) :
    ~TokenInBody(requests[i]) /\ ~TokenInUrl(requests[i])

\* the part of C33 that holds: every request carries the token as its bearer
\* value, no URL holds it, and the only body field that holds it is the
\* workflow input 'username' of the dispatch
C33_TokenOnlyInDispatchInput ==
  \A i \in 1..Len(requests) :
    /\ requests[i].auth = token
    /\ ~TokenInUrl(requests[i])
    /\ \A f \in TextFields(requests[i]) :
         f[2] = token => IsDispatch(requests[i]) /\ f[1] = "username"

\* a workflow dispatch has been accepted
C33_Dispatched ==
  \E i \in 1..Len(requests) : IsDispatch(requests[i]) /\ requests[i].status = 204

\* ---- C34 ----

\* a OneDrive vault is configured besides the local vault
TwoVaults == variant = "desktop" /\ Stripped.onedrive_vault_link # <<>>

\* the desktop run passed the checks of its fields and is over
DesktopRunOver == variant = "desktop" /\ pc = "done" /\ output # <<>>

\* the first lines run_git_commands can return for the OneDrive vault
SecondSyncStarts ==
  {Line("Changed to directory: ", Stripped.onedrive_vault_link),
   Line("Error: Directory does not exist", Stripped.onedrive_vault_link)}

\* the log holds the heading of the OneDrive vault followed by the first line
\* of that vault's sync
SecondSyncLogged ==
  \E i \in 1..(Len(output_text) - 1) :
    /\ output_text[i] = Line("\nProcessing OneDrive Vault...", <<>>)
    /\ output_text[i + 1] \in SecondSyncStarts

\* the local vault's sync did not complete
FirstSyncFailed ==
  \A i \in 1..Len(output_text) :
    output_text[i] # Line("Git operations completed successfully in ",
                          Stripped.local_vault_link)

\* C34: with two vault directories configured, no command of the local vault
\* follows a command of the OneDrive vault, and while the OneDrive vault's sync
\* is under way the local vault's log is closed by the OneDrive heading; once
\* the run is over the OneDrive vault's sync has been started whether or not
\* the local vault's sync completed, and the last line of the log is
\* 'All operations completed.' whatever failed
C34_SecondAfterFirstAlways ==
  /\ [](/\ TwoVaults =>
             /\ \A i \in 1..Len(cmds) : \A j \in 1..Len(cmds) :
                  (i < j /\ cmds[i].dir = Stripped.onedrive_vault_link) =>
                    cmds[j].dir = Stripped.onedrive_vault_link
             /\ (\E i \in 1..Len(cmds) : cmds[i].dir = Stripped.onedrive_vault_link) =>
                  cur = 2
             /\ (cur = 2 /\ pc # "done") =>
                  output[Len(output)] = Line("\nProcessing OneDrive Vault...", <<>>)
             /\ DesktopRunOver => cur = 2 /\ SecondSyncLogged
        /\ DesktopRunOver =>
             output_text[Len(output_text)] = Line("\nAll operations completed.", <<>>))
  /\ [][cur' # cur /\ cur' = 2 => pc = "g_return"]_vars

\* the local vault's sync failed, the OneDrive vault's commands were run all
\* the same and the run is over
C34_Witness ==
  /\ TwoVaults
  /\ DesktopRunOver
  /\ FirstSyncFailed
  /\ \E i \in 1..Len(cmds) : cmds[i].dir = Stripped.onedrive_vault_link
====
